---- MODULE Spec2Model ----
(***************************************************************************)
(* Model of the workflow orchestrator of doomscroller                       *)
(* (src/services/workflow-orchestrator.ts) over the record store            *)
(* (src/lib/database.ts).                                                   *)
(*                                                                          *)
(* One behaviour is one invocation of generateAndPostVideo for one niche.   *)
(* Every awaited call is one step.  A call to an external collaborator      *)
(* (record store, prompt/video adapters, asset store, platform posters)     *)
(* either succeeds or throws; `threw` records which calls threw.  An error  *)
(* is identified by its message, and the message names the throwing call    *)
(* (messages are non-empty; the empty string stands for "no error").        *)
(* The three platform branches of postToAllPlatforms are promises whose     *)
(* continuations interleave freely at their awaits.                         *)
(***************************************************************************)
EXTENDS Integers, Sequences, FiniteSets, TLC

VARIABLES
    niche,        \* the ContentNiche passed to generateAndPostVideo
    pc,           \* position of generateAndPostVideo
    jobId,        \* local `jobId` (0 is null)
    videoId,      \* local `videoId` (0 before uuidv4())
    err,          \* message of the error caught by the catch block
    topics,       \* trendingTopics.length
    jobs,         \* "jobs" collection: job id -> WorkflowJob
    statusLog,    \* per job: every status value the store has held, in order
    videos,       \* "videos" collection: video id -> VideoMetadata
    videoLog,     \* every version of the run's video document the store has held, in order
    topicLog,     \* number of rows in the "trending" collection
    uuidCount,    \* number of ids uuidv4() has handed out
    br,           \* the fan-out promises: platform -> [pc, video (local copy)]
    started,      \* platforms whose branch postToAllPlatforms has started
    postCalled,   \* platforms whose post call has been issued
    postOk,       \* platforms whose post call has returned a result
    threw,        \* calls that threw during the run
    outcome,      \* "pending", "returned" or "rejected"
    returned,     \* the video id generateAndPostVideo resolved with (0: none)
    rejectedWith, \* the message of the error it rejected with ("": none)
    trace,        \* the steps of the try block the run has begun, in order
    niches,       \* "niches" collection, in the order getAllContentNiches lists it
    retry,        \* retryFailedJob: its position, argument and result
    sched,        \* scheduledVideoGenerator: its position, loop index and log
    col,          \* analyticsCollector: its position and local copies
    poll,         \* a status-polling loop: its position and counters
    calc          \* one call of a helper function: its arguments and its result

vars == <<niche, pc, jobId, videoId, err, topics, jobs, statusLog, videos, videoLog,
          topicLog, uuidCount, br, started, postCalled, postOk, threw, outcome,
          returned, rejectedWith, trace, niches, retry, sched, col, poll, calc>>

\* Largest number of relevant trending topics a fetch returns in the model.
MaxTopics == 2

Platforms == {"youtube", "instagram", "tiktok"}

NoError == ""

\* socialAccounts.youtube / .instagram: the entry is absent or present.
\* socialAccounts.tiktok: absent, present without accessToken, present with
\* an empty accessToken, present with a non-empty accessToken.
SocialAccountConfig ==
    [youtube : {"absent", "present"},
     instagram : {"absent", "present"},
     tiktok : {"absent", "noToken", "emptyToken", "token"}]

ContentNiche == [id : {"n1"}, socialAccounts : SocialAccountConfig]

NoVideo == [id |-> 0, niche |-> "", status |-> "null", platforms |-> <<>>]

idle == [pc |-> "idle", video |-> NoVideo]

(***************************************************************************)
(* Record store (database.ts)                                               *)
(***************************************************************************)

\* createJob: a new document under a store-assigned id, startedAt and
\* completedAt null.
CreateJob(js, job) ==
    Append(js, [status |-> job.status, type |-> job.type, niche |-> job.niche,
                retryCount |-> job.retryCount, error |-> NoError,
                startedAtWrites |-> 0, completedAtWrites |-> 0])

\* Fault seeded into updateJobStatus: the error text is not written.
UpdateJobStatusDroppingError(js, id, status, error) ==
    [js EXCEPT ![id] =
        [@ EXCEPT !.status = status,
                  !.startedAtWrites = IF status = "running" THEN @ + 1 ELSE @,
                  !.completedAtWrites = IF status \in {"completed", "failed"} THEN @ + 1 ELSE @]]

\* Fault seeded into updateJobStatus: startedAt is stamped by every update.
UpdateJobStatusAlwaysStarting(js, id, status, error) ==
    [js EXCEPT ![id] =
        [@ EXCEPT !.status = status,
                  !.startedAtWrites = @ + 1,
                  !.completedAtWrites = IF status \in {"completed", "failed"} THEN @ + 1 ELSE @,
                  !.error = IF error # NoError THEN error ELSE @]]

\* updateJobStatus: update({status, startedAt?, completedAt?, error?}).
\* `updates` is a fresh object, so `!updates.startedAt` is always true.
UpdateJobStatus(js, id, status, error) ==
    [js EXCEPT ![id] =
        [@ EXCEPT !.status = status,
                  !.startedAtWrites = IF status = "running" THEN @ + 1 ELSE @,
                  !.completedAtWrites = IF status \in {"completed", "failed"} THEN @ + 1 ELSE @,
                  !.error = IF error # NoError THEN error ELSE @]]

\* Fault seeded into saveVideoMetadata: add() under a store-assigned id in
\* place of doc(video.id).set().
SaveVideoMetadataAdding(vs, video) ==
    ((Cardinality(DOMAIN vs) + 1) :> video) @@ vs

\* saveVideoMetadata: set() replaces the whole document.
SaveVideoMetadata(vs, video) ==
    (video.id :> video) @@ vs

\* getVideoMetadata: the stored document, or null.
GetVideoMetadata(vs, id) ==
    IF id \in DOMAIN vs THEN vs[id] ELSE NoVideo

\* updateVideoStatus: update({status}) touches the status field only.
UpdateVideoStatus(vs, id, status) ==
    [vs EXCEPT ![id].status = status]

(***************************************************************************)
(* postToAllPlatforms: which branches are started                           *)
(***************************************************************************)

\* Fault seeded into the guards: TikTok is enabled by the mere presence of
\* its entry.
EligibleByEntry(n, p) ==
    CASE p = "youtube" -> n.socialAccounts.youtube = "present"
      [] p = "instagram" -> n.socialAccounts.instagram = "present"
      [] p = "tiktok" -> n.socialAccounts.tiktok # "absent"

\* The three `if` guards of postToAllPlatforms.
Eligible(n, p) ==
    CASE p = "youtube" -> n.socialAccounts.youtube = "present"
      [] p = "instagram" -> n.socialAccounts.instagram = "present"
      [] p = "tiktok" -> n.socialAccounts.tiktok = "token"

\* The first await of each branch: the synchronous prefix of an async
\* function runs when it is called.
FirstAwait(p) ==
    CASE p = "youtube" -> "setCredentials"
      [] p = "instagram" -> "read"
      [] p = "tiktok" -> "post"

\* Fault seeded into the barrier: it resolves as soon as one promise settled
\* (Promise.race in place of Promise.allSettled).
AnySettled(b) ==
    \E p \in Platforms : b[p].pc \in {"idle", "done"}

\* Promise.allSettled(platforms) resolves once every started promise settled.
AllSettled(b) ==
    \A p \in Platforms : b[p].pc \in {"idle", "done"}

\* Fault seeded into the push: a pending entry is appended when the call is
\* attempted and a second, posted entry when it succeeded.
PushPendingThenPosted(video, p) ==
    [video EXCEPT !.platforms =
        @ \o <<[platform |-> p, status |-> "pending", postId |-> ""],
               [platform |-> p, status |-> "posted", postId |-> p]>>]

\* video.platforms.push({platform, postId, postedAt, status: "posted"})
Push(video, p) ==
    [video EXCEPT !.platforms = Append(@, [platform |-> p, status |-> "posted", postId |-> p])]

(***************************************************************************)
(* Initial state                                                            *)
(***************************************************************************)

\* retryFailedJob has not been called.
RetryIdle ==
    [pc |-> "idle", jobId |-> 0, failedRun |-> 0, before |-> <<>>,
     outcome |-> "pending", error |-> NoError]

\* The generateVideos handler has not answered.
NoResponse == [status |-> 0, success |-> FALSE, text |-> ""]

\* scheduledVideoGenerator has not been triggered.
SchedIdle ==
    [pc |-> "idle", i |-> 0, list |-> <<>>, invoked |-> <<>>, results |-> <<>>,
     logged |-> <<>>, outcome |-> "pending", error |-> NoError, http |-> NoResponse,
     configErrors |-> <<>>, listed |-> FALSE]

\* analyticsCollector has not been triggered.
ColIdle ==
    [pc |-> "idle", list |-> <<>>, i |-> 0, videos |-> <<>>, v |-> 0, video |-> NoVideo,
     p |-> 0, queried |-> {}, rows |-> <<>>, logged |-> <<>>, saves |-> 0,
     listed |-> <<>>, recent |-> {}, visited |-> {}, wrote |-> <<>>,
     outcome |-> "pending", error |-> NoError]

\* No helper function is being called.
CalcIdle == [fn |-> "none", pc |-> "idle"]

\* No polling loop is running.
PollIdle ==
    [kind |-> "none", pc |-> "idle", attempts |-> 0, queries |-> 0, last |-> "none",
     videoUrl |-> "", outcome |-> "pending", error |-> NoError, result |-> ""]

Init ==
    /\ niche \in ContentNiche
    /\ pc = "createJob"
    /\ jobId = 0
    /\ videoId = 0
    /\ err = NoError
    /\ topics = 0
    /\ jobs = <<>>
    /\ statusLog = <<>>
    /\ videos = <<>>
    /\ videoLog = <<>>
    /\ topicLog = 0
    /\ uuidCount = 0
    /\ br = [p \in Platforms |-> idle]
    /\ started = {}
    /\ postCalled = {}
    /\ postOk = {}
    /\ threw = {}
    /\ outcome = "pending"
    /\ returned = 0
    /\ rejectedWith = NoError
    /\ trace = <<>>
    /\ niches = <<niche>>
    /\ retry = RetryIdle
    /\ sched = SchedIdle
    /\ col = ColIdle
    /\ poll = PollIdle
    /\ calc = CalcIdle

(***************************************************************************)
(* generateAndPostVideo                                                     *)
(***************************************************************************)

\* What the caller owns: no step of generateAndPostVideo changes it.
frame == <<niche, niches, retry, sched, col, poll, calc>>

runVars == <<frame, jobId, videoId, topics, uuidCount>>
storeVars == <<jobs, statusLog, videos, videoLog, topicLog>>
fanVars == <<br, started, postCalled, postOk>>
endVars == <<outcome, returned, rejectedWith>>

\* An awaited call of the try block throws: control moves to the catch block.
Throw(site) ==
    /\ pc' = "catch"
    /\ err' = site
    /\ threw' = threw \cup {site}

\* jobId = await this.db.createJob({type: "generate", status: "queued", ...})
CreateJobStep ==
    /\ pc = "createJob"
    /\ trace' = Append(trace, pc)
    /\ \/ /\ jobs' = CreateJob(jobs, [type |-> "generate", status |-> "queued",
                                      niche |-> niche.id, retryCount |-> 0])
          /\ jobId' = Len(jobs) + 1
          /\ statusLog' = Append(statusLog, <<"queued">>)
          /\ pc' = "setRunning"
          /\ UNCHANGED <<err, threw>>
       \/ /\ Throw("createJob")
          /\ UNCHANGED <<jobId, jobs, statusLog>>
    /\ UNCHANGED <<frame, videoId, topics, uuidCount, videos, videoLog, topicLog>>
    /\ UNCHANGED <<fanVars, endVars>>

\* await this.db.updateJobStatus(jobId, "running")
SetRunning ==
    /\ pc = "setRunning"
    /\ trace' = Append(trace, pc)
    /\ \/ /\ jobs' = UpdateJobStatus(jobs, jobId, "running", NoError)
          /\ statusLog' = [statusLog EXCEPT ![jobId] = Append(@, "running")]
          /\ pc' = "fetchTopics"
          /\ UNCHANGED <<err, threw>>
       \/ /\ Throw("updateJobStatus.running")
          /\ UNCHANGED <<jobs, statusLog>>
    /\ UNCHANGED <<runVars, videos, videoLog, topicLog, fanVars, endVars>>

\* The topic sources of fetchTrendingTopics.
TopicSources == {"fetchGoogleTrends", "fetchTwitterTrends"}

\* What a source call does: it throws, or returns some relevant topics.
SourceOutcomes ==
    {[throws |-> TRUE, found |-> 0]}
        \cup {[throws |-> FALSE, found |-> n] : n \in 0..MaxTopics}

\* fetchGoogleTrends / fetchTwitterTrends: catch (error) { return [] }
FetchTrends(response) ==
    IF response.throws THEN 0 ELSE response.found

\* getTrendingForNiche: the relevant topics of both sources, cut to the
\* limit (MaxTopics stands for slice(0, 10)).
GetTrendingForNiche(google, twitter) ==
    LET n == FetchTrends(google) + FetchTrends(twitter)
    IN IF n > MaxTopics THEN MaxTopics ELSE n

\* The source calls that threw.
FailedSources(google, twitter) ==
    {src \in TopicSources : IF src = "fetchGoogleTrends" THEN google.throws
                                                          ELSE twitter.throws}

\* Fault seeded into the topic step: the recent-video load sits inside the
\* `if (trendingTopics.length > 0)` block and is skipped without topics.
FetchTopicsSkippingLoad ==
    /\ pc = "fetchTopics"
    /\ trace' = Append(trace, pc)
    /\ \E google, twitter \in SourceOutcomes :
          LET n == GetTrendingForNiche(google, twitter)
          IN /\ topics' = n
             /\ threw' = threw \cup FailedSources(google, twitter)
             /\ pc' = IF n > 0 THEN "saveTopics" ELSE "generatePrompt"
    /\ UNCHANGED <<frame, jobId, videoId, uuidCount, err>>
    /\ UNCHANGED <<storeVars, fanVars, endVars>>

\* Fault seeded into the topic step: a failed source call reaches the
\* orchestrator as an exception.
FetchTopicsRethrowing ==
    /\ pc = "fetchTopics"
    /\ trace' = Append(trace, pc)
    /\ \E google, twitter \in SourceOutcomes :
          LET failed == FailedSources(google, twitter)
              n == GetTrendingForNiche(google, twitter)
          IN IF failed = {}
             THEN /\ topics' = n
                  /\ pc' = IF n > 0 THEN "saveTopics" ELSE "loadRecent"
                  /\ UNCHANGED <<err, threw>>
             ELSE /\ pc' = "catch"
                  /\ err' = CHOOSE src \in failed : TRUE
                  /\ threw' = threw \cup failed
                  /\ UNCHANGED topics
    /\ UNCHANGED <<frame, jobId, videoId, uuidCount>>
    /\ UNCHANGED <<storeVars, fanVars, endVars>>

\* Fault seeded into the topic step: the topic save is called without the
\* `trendingTopics.length > 0` test.
FetchTopicsAlwaysSaving ==
    /\ pc = "fetchTopics"
    /\ trace' = Append(trace, pc)
    /\ \E google, twitter \in SourceOutcomes :
          LET n == GetTrendingForNiche(google, twitter)
          IN /\ topics' = n
             /\ threw' = threw \cup FailedSources(google, twitter)
             /\ pc' = "saveTopics"
    /\ UNCHANGED <<frame, jobId, videoId, uuidCount, err>>
    /\ UNCHANGED <<storeVars, fanVars, endVars>>

\* trendingTopics = await getTrendingForNiche(...): never throws, a failed
\* source call yields no topics from that source.
FetchTopics ==
    /\ pc = "fetchTopics"
    /\ trace' = Append(trace, pc)
    /\ \E google, twitter \in SourceOutcomes :
          LET n == GetTrendingForNiche(google, twitter)
          IN /\ topics' = n
             /\ threw' = threw \cup FailedSources(google, twitter)
             /\ pc' = IF n > 0 THEN "saveTopics" ELSE "loadRecent"
    /\ UNCHANGED <<frame, jobId, videoId, uuidCount, err>>
    /\ UNCHANGED <<storeVars, fanVars, endVars>>

\* if (trendingTopics.length > 0) await this.db.saveTrendingTopics(trendingTopics)
SaveTopics ==
    /\ pc = "saveTopics"
    /\ trace' = Append(trace, pc)
    /\ \/ /\ topicLog' = topicLog + topics
          /\ pc' = "loadRecent"
          /\ UNCHANGED <<err, threw>>
       \/ /\ Throw("saveTrendingTopics")
          /\ UNCHANGED topicLog
    /\ UNCHANGED <<runVars, jobs, statusLog, videos, videoLog, fanVars, endVars>>

\* An awaited call of the try block that changes no modelled state.
Call(at, site, next) ==
    /\ pc = at
    /\ trace' = Append(trace, pc)
    /\ \/ /\ pc' = next
          /\ UNCHANGED <<err, threw>>
       \/ Throw(site)
    /\ UNCHANGED <<runVars, storeVars, fanVars, endVars>>

\* recentVideos = await this.db.getVideosByNiche(niche.id, 10)
LoadRecent ==
    /\ pc = "loadRecent"
    /\ Call("loadRecent", "getVideosByNiche", "generatePrompt")

\* promptResponse = await this.promptGenerator.generatePrompt({...})
GeneratePrompt ==
    /\ pc = "generatePrompt"
    /\ Call("generatePrompt", "generatePrompt", "generateVideo")

\* The request of the prompt step: trendingTopics is the fetched list, or
\* undefined (here the empty tuple) when the list is empty.
PromptRequest ==
    [niche |-> niche.id,
     trendingTopics |-> IF topics > 0 THEN <<topics>> ELSE <<>>]

\* videoId = uuidv4(); videoResponse = await this.videoGenerator.generateVideo(...)
GenerateVideo ==
    /\ pc = "generateVideo"
    /\ trace' = Append(trace, pc)
    /\ uuidCount' = uuidCount + 1
    /\ videoId' = uuidCount + 1
    /\ \/ /\ pc' = "downloadVideo"
          /\ UNCHANGED <<err, threw>>
       \/ Throw("generateVideo")
    /\ UNCHANGED <<frame, jobId, topics, storeVars, fanVars, endVars>>

\* videoBuffer = await this.videoGenerator.downloadVideo(videoResponse.videoUrl)
DownloadVideo ==
    /\ pc = "downloadVideo"
    /\ Call("downloadVideo", "downloadVideo", "uploadVideo")

\* {publicUrl, storagePath} = await this.storage.uploadVideo(...)
UploadVideo ==
    /\ pc = "uploadVideo"
    /\ Call("uploadVideo", "uploadVideo", "saveVideoMetadata")

\* Fault seeded into the literal: the record is created as "generating".
NewVideoMetadataGenerating(id, n) ==
    [id |-> id, niche |-> n.id, status |-> "generating", platforms |-> <<>>]

\* The VideoMetadata literal of step 5.
NewVideoMetadata(id, n) ==
    [id |-> id, niche |-> n.id, status |-> "ready", platforms |-> <<>>]

\* await this.db.saveVideoMetadata(videoMetadata)
SaveVideo ==
    /\ pc = "saveVideoMetadata"
    /\ trace' = Append(trace, pc)
    /\ \/ /\ videos' = SaveVideoMetadata(videos, NewVideoMetadata(videoId, niche))
          /\ videoLog' = Append(videoLog, NewVideoMetadata(videoId, niche))
          /\ pc' = "postToAllPlatforms"
          /\ UNCHANGED <<err, threw>>
       \/ /\ Throw("saveVideoMetadata")
          /\ UNCHANGED <<videos, videoLog>>
    /\ UNCHANGED <<runVars, jobs, statusLog, topicLog, fanVars, endVars>>

\* postToAllPlatforms up to its await: every eligible branch is called, and
\* each call runs to the branch's first await.
StartFanout ==
    /\ pc = "postToAllPlatforms"
    /\ trace' = Append(trace, pc)
    /\ br' = [p \in Platforms |->
                IF Eligible(niche, p) THEN [pc |-> FirstAwait(p), video |-> NoVideo] ELSE idle]
    /\ started' = {p \in Platforms : Eligible(niche, p)}
    /\ pc' = "allSettled"
    /\ UNCHANGED <<runVars, storeVars, postCalled, postOk, err, threw, endVars>>

\* Fault seeded into the barrier: a failed branch rejects the fan-out
\* (Promise.all over branches that rethrow).
AwaitFanoutRejecting ==
    /\ pc = "allSettled"
    /\ AllSettled(br)
    /\ trace' = Append(trace, pc)
    /\ \/ /\ threw = {}
          /\ pc' = "setCompleted"
          /\ UNCHANGED err
       \/ /\ \E site \in threw : err' = site
          /\ pc' = "catch"
    /\ UNCHANGED <<runVars, storeVars, fanVars, threw, endVars>>

\* await Promise.allSettled(platforms); the branches never reject.
AwaitFanout ==
    /\ pc = "allSettled"
    /\ AllSettled(br)
    /\ trace' = Append(trace, pc)
    /\ pc' = "setCompleted"
    /\ UNCHANGED <<runVars, storeVars, fanVars, err, threw, endVars>>

\* await this.db.updateJobStatus(jobId, "completed")
SetCompleted ==
    /\ pc = "setCompleted"
    /\ trace' = Append(trace, pc)
    /\ \/ /\ jobs' = UpdateJobStatus(jobs, jobId, "completed", NoError)
          /\ statusLog' = [statusLog EXCEPT ![jobId] = Append(@, "completed")]
          /\ pc' = "setPosted"
          /\ UNCHANGED <<err, threw>>
       \/ /\ Throw("updateJobStatus.completed")
          /\ UNCHANGED <<jobs, statusLog>>
    /\ UNCHANGED <<runVars, videos, videoLog, topicLog, fanVars, endVars>>

\* await this.db.updateVideoStatus(videoId, "posted"); return videoId
SetPosted ==
    /\ pc = "setPosted"
    /\ trace' = Append(trace, pc)
    /\ \/ /\ videoId \in DOMAIN videos
          /\ videos' = UpdateVideoStatus(videos, videoId, "posted")
          /\ videoLog' = Append(videoLog, UpdateVideoStatus(videos, videoId, "posted")[videoId])
          /\ pc' = "done"
          /\ outcome' = "returned"
          /\ returned' = videoId
          /\ UNCHANGED <<err, threw, rejectedWith>>
       \/ /\ Throw("updateVideoStatus")
          /\ UNCHANGED <<videos, videoLog, endVars>>
    /\ UNCHANGED <<runVars, jobs, statusLog, topicLog, fanVars>>

\* Fault seeded into the catch block: the error is recorded on the job but
\* not rethrown, the call resolves with the video id.
CatchSwallowing ==
    /\ pc = "catch"
    /\ jobId # 0
    /\ pc' = "done"
    /\ outcome' = "returned"
    /\ returned' = videoId
    /\ jobs' = UpdateJobStatus(jobs, jobId, "failed", err)
    /\ statusLog' = [statusLog EXCEPT ![jobId] = Append(@, "failed")]
    /\ UNCHANGED <<runVars, videos, videoLog, topicLog, fanVars, err, threw, rejectedWith, trace>>

\* catch (error) { if (jobId) await updateJobStatus(jobId, "failed", message); throw error }
Catch ==
    /\ pc = "catch"
    /\ pc' = "done"
    /\ outcome' = "rejected"
    /\ \/ /\ jobId = 0
          /\ rejectedWith' = err
          /\ UNCHANGED <<jobs, statusLog, threw>>
       \/ /\ jobId # 0
          /\ jobs' = UpdateJobStatus(jobs, jobId, "failed", err)
          /\ statusLog' = [statusLog EXCEPT ![jobId] = Append(@, "failed")]
          /\ rejectedWith' = err
          /\ UNCHANGED threw
       \/ /\ jobId # 0
          /\ threw' = threw \cup {"updateJobStatus.failed"}
          /\ rejectedWith' = "updateJobStatus.failed"
          /\ UNCHANGED <<jobs, statusLog>>
    /\ UNCHANGED <<runVars, videos, videoLog, topicLog, fanVars, err, returned, trace>>

(***************************************************************************)
(* The fan-out branches: postToYouTube, postToInstagram, postToTikTok       *)
(***************************************************************************)

\* What a branch step leaves alone.
mainVars == <<pc, err, runVars, jobs, statusLog, topicLog, started, endVars, trace>>

\* An awaited call of a branch throws: the branch's own catch block logs the
\* error and the promise fulfils.
BranchThrow(p, site) ==
    /\ br' = [br EXCEPT ![p].pc = "done"]
    /\ threw' = threw \cup {site}

\* The continuation after `video = await this.db.getVideoMetadata(videoId)`
\* in postToYouTube and postToTikTok: if (video) { push; save }.
ReadThenPush(p) ==
    LET video == GetVideoMetadata(videos, videoId) IN
    IF video # NoVideo
    THEN [pc |-> "save", video |-> Push(video, p)]
    ELSE [pc |-> "done", video |-> NoVideo]

\* await this.db.saveVideoMetadata(video) with the branch's local copy.
BranchSave(p) ==
    /\ br[p].pc = "save"
    /\ \/ /\ videos' = SaveVideoMetadata(videos, br[p].video)
          /\ videoLog' = Append(videoLog, br[p].video)
          /\ br' = [br EXCEPT ![p].pc = "done"]
          /\ UNCHANGED threw
       \/ /\ BranchThrow(p, p \o ".saveVideoMetadata")
          /\ UNCHANGED <<videos, videoLog>>
    /\ UNCHANGED <<mainVars, postCalled, postOk>>

\* The platform's post call: it is issued, then returns a result or throws.
BranchPost(p, site, after) ==
    /\ br[p].pc \in {"upload", "post"}
    /\ postCalled' = postCalled \cup {p}
    /\ \/ /\ br' = [br EXCEPT ![p] = after]
          /\ postOk' = postOk \cup {p}
          /\ UNCHANGED threw
       \/ /\ BranchThrow(p, site)
          /\ UNCHANGED postOk
    /\ UNCHANGED <<mainVars, videos, videoLog>>

\* The read of the video document by a branch.
BranchRead(p, after) ==
    /\ br[p].pc = "read"
    /\ \/ /\ br' = [br EXCEPT ![p] = after]
          /\ UNCHANGED threw
       \/ BranchThrow(p, p \o ".getVideoMetadata")
    /\ UNCHANGED <<mainVars, videos, videoLog, postCalled, postOk>>

\* await youtube.setCredentials(youtubeAccount.refreshToken)
YouTubeSetCredentials ==
    /\ br["youtube"].pc = "setCredentials"
    /\ \/ /\ br' = [br EXCEPT !["youtube"].pc = "upload"]
          /\ UNCHANGED threw
       \/ BranchThrow("youtube", "youtube.setCredentials")
    /\ UNCHANGED <<mainVars, videos, videoLog, postCalled, postOk>>

\* result = await youtube.uploadShortFromBuffer(videoBuffer, title, ...)
YouTubeUpload ==
    /\ br["youtube"].pc = "upload"
    /\ BranchPost("youtube", "youtube.uploadShortFromBuffer",
                  [pc |-> "read", video |-> NoVideo])

\* video = await this.db.getVideoMetadata(videoId); if (video) push
YouTubeRead ==
    /\ br["youtube"].pc = "read"
    /\ BranchRead("youtube", ReadThenPush("youtube"))

\* await this.db.saveVideoMetadata(video)
YouTubeSave ==
    /\ br["youtube"].pc = "save"
    /\ BranchSave("youtube")

\* video = await this.db.getVideoMetadata(videoId);
\* if (!video) throw new Error("Video not found")
InstagramRead ==
    /\ br["instagram"].pc = "read"
    /\ BranchRead("instagram",
                  LET video == GetVideoMetadata(videos, videoId) IN
                  IF video # NoVideo
                  THEN [pc |-> "post", video |-> video]
                  ELSE [pc |-> "done", video |-> NoVideo])

\* result = await instagram.postReel(accountId, video.videoUrl, caption);
\* video.platforms.push(...) on the copy read before the call
InstagramPostReel ==
    /\ br["instagram"].pc = "post"
    /\ BranchPost("instagram", "instagram.postReel",
                  [pc |-> "save", video |-> Push(br["instagram"].video, "instagram")])

\* await this.db.saveVideoMetadata(video)
InstagramSave ==
    /\ br["instagram"].pc = "save"
    /\ BranchSave("instagram")

\* result = await tiktok.postVideo(videoBuffer, caption, {...})
TikTokPostVideo ==
    /\ br["tiktok"].pc = "post"
    /\ BranchPost("tiktok", "tiktok.postVideo", [pc |-> "read", video |-> NoVideo])

\* video = await this.db.getVideoMetadata(videoId); if (video) push
TikTokRead ==
    /\ br["tiktok"].pc = "read"
    /\ BranchRead("tiktok", ReadThenPush("tiktok"))

\* await this.db.saveVideoMetadata(video)
TikTokSave ==
    /\ br["tiktok"].pc = "save"
    /\ BranchSave("tiktok")

(***************************************************************************)
(* Specification                                                            *)
(***************************************************************************)

Next ==
    \/ CreateJobStep
    \/ SetRunning
    \/ FetchTopics
    \/ SaveTopics
    \/ LoadRecent
    \/ GeneratePrompt
    \/ GenerateVideo
    \/ DownloadVideo
    \/ UploadVideo
    \/ SaveVideo
    \/ StartFanout
    \/ YouTubeSetCredentials
    \/ YouTubeUpload
    \/ YouTubeRead
    \/ YouTubeSave
    \/ InstagramRead
    \/ InstagramPostReel
    \/ InstagramSave
    \/ TikTokPostVideo
    \/ TikTokRead
    \/ TikTokSave
    \/ AwaitFanout
    \/ SetCompleted
    \/ SetPosted
    \/ Catch

Spec == Init /\ [][Next]_vars

TypeOK ==
    /\ niche \in ContentNiche
    /\ jobId \in 0..Len(jobs)
    /\ videoId \in 0..uuidCount
    /\ topics \in 0..MaxTopics
    /\ started \subseteq Platforms
    /\ postOk \subseteq postCalled
    /\ postCalled \subseteq started
    /\ outcome \in {"pending", "returned", "rejected"}
    /\ (pc = "done") = (outcome # "pending")

(***************************************************************************)
(* Vocabulary of the properties                                             *)
(***************************************************************************)

\* The entries of a video document's platforms list.
Entries(video) == {video.platforms[i] : i \in DOMAIN video.platforms}

\* The PlatformPost a successful post to p is recorded as.
PostedEntry(p) == [platform |-> p, status |-> "posted", postId |-> p]

\* The niche holds a credential entry for p.
EntryPresent(p) ==
    CASE p = "youtube" -> niche.socialAccounts.youtube # "absent"
      [] p = "instagram" -> niche.socialAccounts.instagram # "absent"
      [] p = "tiktok" -> niche.socialAccounts.tiktok # "absent"

\* The niche holds a usable credential for p: the entry, and for TikTok a
\* non-empty access token in it.
Credentialed(p) ==
    CASE p = "youtube" -> niche.socialAccounts.youtube = "present"
      [] p = "instagram" -> niche.socialAccounts.instagram = "present"
      [] p = "tiktok" -> niche.socialAccounts.tiktok = "token"

AllCredentials == [youtube |-> "present", instagram |-> "present", tiktok |-> "token"]

NoCredentials == [youtube |-> "absent", instagram |-> "absent", tiktok |-> "absent"]

\* The platform's post call.
PostSite(p) ==
    CASE p = "youtube" -> "youtube.uploadShortFromBuffer"
      [] p = "instagram" -> "instagram.postReel"
      [] p = "tiktok" -> "tiktok.postVideo"

\* The calls made inside the branch of p.
BranchSites(p) ==
    {PostSite(p), p \o ".getVideoMetadata", p \o ".saveVideoMetadata"}
        \cup (IF p = "youtube" THEN {"youtube.setCredentials"} ELSE {})

FanoutSites == UNION {BranchSites(p) : p \in Platforms}

\* postToAllPlatforms has been entered and has started its branches.
FanoutStarted == videoLog # <<>> /\ pc # "postToAllPlatforms"

ReadyRecord == [id |-> videoId, niche |-> niche.id, status |-> "ready", platforms |-> <<>>]

PostedRecord == [id |-> videoId, niche |-> niche.id, status |-> "posted", platforms |-> <<>>]

(***************************************************************************)
(* Properties                                                               *)
(***************************************************************************)

\* C1: with all three credentials, if only the Instagram post call throws,
\* the video record persisted when the run returns holds exactly the two
\* posted entries youtube and tiktok, and the job is completed, under every
\* interleaving of the branches.
C1_PartialFailureIsolation ==
    (outcome = "returned" /\ niche.socialAccounts = AllCredentials
                          /\ threw = {"instagram.postReel"})
    => /\ Len(videos[returned].platforms) = 2
       /\ Entries(videos[returned]) = {PostedEntry("youtube"), PostedEntry("tiktok")}
       /\ jobs[jobId].status = "completed"

\* C2: whichever calls inside the platform branches throw (any subset, all
\* included), the run returns the video id with the job completed and the
\* video posted, every credentialed platform's branch was started, and the
\* post call of a platform was issued unless its own branch failed first.
C2_FanoutFailuresDoNotPropagate ==
    (pc = "done" /\ threw \subseteq FanoutSites)
    => /\ outcome = "returned"
       /\ returned = videoId
       /\ jobs[jobId].status = "completed"
       /\ videoId \in DOMAIN videos
       /\ videos[videoId].status = "posted"
       /\ \A p \in Platforms :
            Credentialed(p) =>
               /\ p \in started
               /\ (p \in postCalled \/ threw \cap BranchSites(p) # {})

\* C2 witness: all three post calls threw and the run still returned.
C2_Witness ==
    /\ outcome = "returned"
    /\ {PostSite(p) : p \in Platforms} \subseteq threw

\* C3: for a niche without any credential entry no branch is started and no
\* platform call is made or fails; the video record is first stored as ready
\* with no platforms, no stored version ever has a platform entry, and when
\* no call throws the run returns the id with the record posted, platforms
\* still empty, and the job completed.
C3_NoCredentialsIsNoOp ==
    niche.socialAccounts = NoCredentials
    => /\ started = {}
       /\ postCalled = {}
       /\ threw \cap FanoutSites = {}
       /\ \A p \in Platforms : br[p] = idle
       /\ videoLog # <<>> => videoLog[1] = ReadyRecord
       /\ \A i \in DOMAIN videoLog : videoLog[i].platforms = <<>>
       /\ (pc = "done" /\ threw = {})
            => /\ outcome = "returned"
               /\ returned = videoId
               /\ videoLog = <<ReadyRecord, PostedRecord>>
               /\ videos[videoId] = PostedRecord
               /\ jobs[jobId].status = "completed"

\* C3 witness: a run for a niche without credentials has returned.
C3_Witness ==
    /\ niche.socialAccounts = NoCredentials
    /\ outcome = "returned"
    /\ videos[returned].status = "posted"

\* C4: a job's stored status follows queued -> running -> completed or
\* queued -> running -> failed only, completed and failed being terminal.
C4_JobStateMachine ==
    \A j \in DOMAIN statusLog :
        statusLog[j] \in {<<"queued">>, <<"queued", "running">>,
                          <<"queued", "running", "completed">>,
                          <<"queued", "running", "failed">>}

\* C5: if the video-generation call throws, no video record is ever written
\* and no platform branch or post call is made; the job's statuses are
\* exactly queued, running, failed and the run rejects with that error.
C5_GenerationFailure ==
    /\ "generateVideo" \in threw
         => /\ videoLog = <<>>
            /\ DOMAIN videos = {}
            /\ started = {}
            /\ postCalled = {}
    /\ (pc = "done" /\ threw = {"generateVideo"})
         => /\ statusLog[jobId] = <<"queued", "running", "failed">>
            /\ outcome = "rejected"
            /\ rejectedWith = "generateVideo"

\* C5 witness: the generation call threw and the run has ended.
C5_Witness ==
    /\ pc = "done"
    /\ threw = {"generateVideo"}
    /\ jobs[jobId].status = "failed"

\* C6: if the recent-video load, prompt generation, asset download, asset
\* upload or the first save of the video record throws, nothing after that
\* step runs, the job is marked failed with the error's message in its error
\* field, and the run rejects with that same error.
C6_FatalStepFailure ==
    \A site \in {"getVideosByNiche", "generatePrompt", "downloadVideo",
                 "uploadVideo", "saveVideoMetadata"} :
        /\ site \in threw
             => /\ videoLog = <<>>
                /\ started = {}
                /\ postCalled = {}
                /\ site \in {"getVideosByNiche", "generatePrompt"} => uuidCount = 0
        /\ (pc = "done" /\ threw = {site})
             => /\ jobs[jobId].status = "failed"
                /\ jobs[jobId].error = site
                /\ outcome = "rejected"
                /\ rejectedWith = site

\* C6 witness: the asset upload threw and the job carries its message.
C6_Witness ==
    /\ pc = "done"
    /\ threw = {"uploadVideo"}
    /\ jobs[jobId].error = "uploadVideo"

\* C7: a throwing saveTrendingTopics does not abort the run: its error never
\* reaches the catch block and never fails the job.
C7_TopicSaveBestEffort ==
    "saveTrendingTopics" \in threw
    => /\ ~(pc = "catch" /\ err = "saveTrendingTopics")
       /\ \A j \in DOMAIN jobs : jobs[j].error # "saveTrendingTopics"
       /\ rejectedWith # "saveTrendingTopics"

\* C8 (as stated): a platform's post operation is started if and only if
\* the niche holds a credential entry for that platform.
C8_EntryPresenceIsTheSwitch ==
    FanoutStarted => \A p \in Platforms : (p \in started) <=> EntryPresent(p)

\* C8 (amended): the post operation is started if and only if the niche
\* holds the youtube entry, the instagram entry, or for TikTok the tiktok
\* entry with a non-empty accessToken; a platform not started is never
\* posted to.
C8_CredentialIsTheSwitch ==
    /\ ~FanoutStarted => started = {}
    /\ FanoutStarted => \A p \in Platforms : (p \in started) <=> Credentialed(p)
    /\ \A p \in Platforms : p \notin started => (br[p] = idle /\ p \notin postCalled)

\* C8 witness: a tiktok entry without token is skipped while youtube runs.
C8_Witness ==
    /\ FanoutStarted
    /\ niche.socialAccounts.tiktok = "noToken"
    /\ "youtube" \in postCalled
    /\ "tiktok" \notin started

\* C9: the persisted platforms list is append-only: an entry once stored is
\* in every later stored version of the video record.
C9_PlatformsAppendOnly ==
    \A i, j \in DOMAIN videoLog :
        i < j => Entries(videoLog[i]) \subseteq Entries(videoLog[j])

\* C10: every credentialed branch is started before any branch is awaited;
\* the run is past the fan-out (job completed, video posted) only when every
\* started branch has settled; no version of the video record is stored
\* after the posted one.
C10_FanoutBarrier ==
    /\ (\E p \in Platforms : br[p].pc # "idle")
         => \A p \in Platforms : Credentialed(p) => br[p].pc # "idle"
    /\ (\/ pc \in {"setCompleted", "setPosted"}
        \/ (jobId # 0 /\ jobs[jobId].status = "completed")
        \/ (videoId \in DOMAIN videos /\ videos[videoId].status = "posted"))
         => \A p \in Platforms : br[p].pc = (IF Credentialed(p) THEN "done" ELSE "idle")
    /\ \A i \in DOMAIN videoLog : videoLog[i].status = "posted" => i = Len(videoLog)

\* C10 witness: three branches ran and stored their entries before the
\* record was posted.
C10_Witness ==
    /\ outcome = "returned"
    /\ started = Platforms
    /\ Len(videoLog) = 5

(***************************************************************************)
(* Properties of one run: order, records, timestamps                        *)
(***************************************************************************)

\* The steps of a run in the order the contract lists them.
ContractOrder ==
    <<"createJob", "setRunning", "fetchTopics", "loadRecent", "generatePrompt",
      "generateVideo", "downloadVideo", "uploadVideo", "saveVideoMetadata",
      "postToAllPlatforms", "allSettled", "setCompleted", "setPosted">>

\* The call a step awaits.
SiteOf(step) ==
    CASE step = "setRunning" -> "updateJobStatus.running"
      [] step = "saveTopics" -> "saveTrendingTopics"
      [] step = "loadRecent" -> "getVideosByNiche"
      [] step = "setCompleted" -> "updateJobStatus.completed"
      [] step = "setPosted" -> "updateVideoStatus"
      [] OTHER -> step

\* The steps begun, the best-effort topic save left out.
ContractSteps == SelectSeq(trace, LAMBDA x : x # "saveTopics")

\* s is an initial segment of t.
IsPrefix(s, t) == Len(s) <= Len(t) /\ \A i \in DOMAIN s : s[i] = t[i]

\* The number of times x occurs in the sequence s.
Count(s, x) == Cardinality({i \in DOMAIN s : s[i] = x})

\* C11: the steps of a run begin in the contract's order, each only after
\* the one before it succeeded; the job is queued then running before the
\* topic fetch, the record is first stored as ready with no platforms, posts
\* are issued only inside the fan-out, and a run that returns has performed
\* every step.
C11_StrictStepOrder ==
    /\ IsPrefix(ContractSteps, ContractOrder)
    /\ \A i \in DOMAIN trace : i < Len(trace) => SiteOf(trace[i]) \notin threw
    /\ \A i \in DOMAIN trace : trace[i] = "saveTopics" => (i > 1 /\ trace[i - 1] = "fetchTopics")
    /\ "fetchTopics" \in {trace[i] : i \in DOMAIN trace}
          => (jobId # 0 /\ statusLog[jobId][1] = "queued" /\ statusLog[jobId][2] = "running")
    /\ videoLog # <<>>
          => (videoLog[1] = ReadyRecord /\ "saveVideoMetadata" \in {trace[i] : i \in DOMAIN trace})
    /\ postCalled # {}
          => ("postToAllPlatforms" \in {trace[i] : i \in DOMAIN trace}
              /\ (pc = "allSettled" \/ "allSettled" \in {trace[i] : i \in DOMAIN trace}))
    /\ (jobId # 0 /\ jobs[jobId].status = "completed")
          => "setCompleted" \in {trace[i] : i \in DOMAIN trace}
    /\ outcome = "returned"
          => (ContractSteps = ContractOrder /\ videos[videoId].status = "posted"
              /\ jobs[jobId].status = "completed")

\* C11 witness: a run with topics has returned after all fourteen steps.
C11_Witness ==
    /\ outcome = "returned"
    /\ Len(trace) = 14
    /\ topicLog > 0

\* C12: when generateAndPostVideo returns a video id, a video record with
\* exactly that id is in the record store.
C12_ReturnedIdResolves ==
    outcome = "returned"
    => /\ returned # 0
       /\ returned \in DOMAIN videos
       /\ videos[returned].id = returned

\* C12 witness: a run has returned and its record carries a platform post.
C12_Witness ==
    /\ outcome = "returned"
    /\ returned \in DOMAIN videos
    /\ Len(videos[returned].platforms) = 1

\* C13 (as stated): an invocation that has ended has created exactly one job
\* record and at most one video record.
C13_ExactlyOneJobRecord ==
    pc = "done" => (Len(jobs) = 1 /\ Cardinality(DOMAIN videos) <= 1)

\* C13 (amended): an invocation creates at most one job record, exactly one
\* once createJob has succeeded and none when createJob itself throws; it
\* draws at most one video id and every stored version of a video record is
\* stored under that id, however often it is re-saved.
C13_OneJobOneVideo ==
    /\ Len(jobs) <= 1
    /\ (Len(jobs) = 1) <=> (jobId # 0)
    /\ (pc = "done" /\ "createJob" \notin threw) => Len(jobs) = 1
    /\ "createJob" \in threw => Len(jobs) = 0
    /\ uuidCount <= 1
    /\ DOMAIN videos \subseteq {videoId} \ {0}
    /\ \A i \in DOMAIN videoLog : videoLog[i].id = videoId

\* C13 witness: the record was saved five times under one id, for one job.
C13_Witness ==
    /\ pc = "done"
    /\ Len(jobs) = 1
    /\ Len(videoLog) = 5
    /\ DOMAIN videos = {videoId}

\* C14: completedAt is written exactly once, when the job enters completed
\* or failed, and never a second time.
C14_CompletedAtOnce ==
    \A j \in DOMAIN jobs :
        /\ jobs[j].completedAtWrites <= 1
        /\ (jobs[j].completedAtWrites = 1) <=> (jobs[j].status \in {"completed", "failed"})

\* C15: startedAt is absent while the job is queued, is written by the
\* update that stores running, and is written by no other status update.
C15_StartedAtOnce ==
    \A j \in DOMAIN jobs :
        /\ jobs[j].startedAtWrites = Count(statusLog[j], "running")
        /\ jobs[j].startedAtWrites <= 1
        /\ jobs[j].status = "queued" => jobs[j].startedAtWrites = 0
        /\ jobs[j].status = "running" => jobs[j].startedAtWrites = 1

\* C15 witness: a job went queued, running, completed with one startedAt.
C15_Witness ==
    /\ jobId # 0
    /\ statusLog[jobId] = <<"queued", "running", "completed">>
    /\ jobs[jobId].startedAtWrites = 1

\* C17: every stored version of the run's video record has at most one
\* entry per platform.
C17_OneEntryPerPlatform ==
    \A i \in DOMAIN videoLog : \A p \in Platforms :
        Cardinality({k \in DOMAIN videoLog[i].platforms :
                        videoLog[i].platforms[k].platform = p}) <= 1

\* C17 witness: a stored version lists all three platforms.
C17_Witness ==
    \E i \in DOMAIN videoLog : Len(videoLog[i].platforms) = 3

(***************************************************************************)
(* retryFailedJob                                                           *)
(*                                                                          *)
(* A first invocation of generateAndPostVideo leaves its job and video      *)
(* records in the store; retryFailedJob is then called with a job id.  The  *)
(* variables of the run (locals, promises, and the histories kept about     *)
(* one run) start afresh with the call.                                     *)
(***************************************************************************)

\* Niches of the retry scenarios: no platform, or exactly one.
RetryNiches ==
    {n \in ContentNiche :
        /\ n.socialAccounts.tiktok \in {"absent", "token"}
        /\ Cardinality({p \in Platforms : Eligible(n, p)}) <= 1}

\* The niche document of the first run may be missing from the store.
InitRetry ==
    /\ niche \in RetryNiches
    /\ niches \in {<<niche>>, <<>>}
    /\ pc = "createJob"
    /\ jobId = 0
    /\ videoId = 0
    /\ err = NoError
    /\ topics = 0
    /\ jobs = <<>>
    /\ statusLog = <<>>
    /\ videos = <<>>
    /\ videoLog = <<>>
    /\ topicLog = 0
    /\ uuidCount = 0
    /\ br = [p \in Platforms |-> idle]
    /\ started = {}
    /\ postCalled = {}
    /\ postOk = {}
    /\ threw = {}
    /\ outcome = "pending"
    /\ returned = 0
    /\ rejectedWith = NoError
    /\ trace = <<>>
    /\ retry = RetryIdle
    /\ sched = SchedIdle
    /\ col = ColIdle
    /\ poll = PollIdle
    /\ calc = CalcIdle

\* A new invocation has its own locals and promises; the histories kept
\* about one run are those of this invocation.
ResetRun ==
    /\ jobId' = 0
    /\ videoId' = 0
    /\ err' = NoError
    /\ topics' = 0
    /\ br' = [p \in Platforms |-> idle]
    /\ started' = {}
    /\ postCalled' = {}
    /\ postOk' = {}
    /\ threw' = {}
    /\ outcome' = "pending"
    /\ returned' = 0
    /\ rejectedWith' = NoError
    /\ trace' = <<>>
    /\ videoLog' = <<>>

NoJob == [status |-> "null"]

\* getJob: the stored document, or null.
GetJob(js, id) ==
    IF id \in DOMAIN js THEN js[id] ELSE NoJob

NoNiche == [id |-> "null"]

\* getContentNiche: the stored document, or null.
GetContentNiche(ns, id) ==
    IF \E i \in DOMAIN ns : ns[i].id = id
    THEN ns[CHOOSE i \in DOMAIN ns : ns[i].id = id]
    ELSE NoNiche

\* Fault seeded into the guard of retryFailedJob: only a missing job is
\* refused, the status is not looked at.
RetryRefusesMissingOnly(job) ==
    job = NoJob

\* if (!job || job.status !== "failed") throw ...
RetryRefuses(job) ==
    job = NoJob \/ job.status # "failed"

\* What retryFailedJob rejects with.
RetryReject(message) ==
    retry' = [retry EXCEPT !.pc = "done", !.outcome = "rejected", !.error = message]

\* retryFailedJob(jobId) is called, with the id of a stored job or with an
\* id no job has; it runs to `await this.db.getJob(jobId)`.
RetryCall ==
    /\ retry.pc = "idle"
    /\ pc = "done"
    /\ \E id \in 1..(Len(jobs) + 1) :
          retry' = [retry EXCEPT !.pc = "getJob", !.jobId = id,
                       !.failedRun = videoId,
                       !.before = [jobs |-> jobs, videos |-> videos,
                                   topicLog |-> topicLog, uuidCount |-> uuidCount]]
    /\ pc' = "idle"
    /\ ResetRun
    /\ UNCHANGED <<niche, niches, sched, col, poll, calc, jobs, statusLog, videos, topicLog, uuidCount>>

\* job = await this.db.getJob(jobId); if (!job || job.status !== "failed") throw
RetryGetJob ==
    /\ retry.pc = "getJob"
    /\ \/ RetryReject("getJob")
       \/ /\ RetryRefuses(GetJob(jobs, retry.jobId))
          /\ RetryReject("Job not found or not in failed status")
       \/ /\ ~RetryRefuses(GetJob(jobs, retry.jobId))
          /\ retry' = [retry EXCEPT !.pc = "getContentNiche"]
    /\ UNCHANGED <<niche, niches, sched, col, poll, calc, pc, jobId, videoId, err, topics, storeVars,
                   uuidCount, fanVars, threw, endVars, trace>>

\* Fault seeded into retryFailedJob: the failed job is resumed, the run
\* re-enters at video generation under the old job id.
RetryGetNicheResuming ==
    /\ retry.pc = "getContentNiche"
    /\ \/ /\ RetryReject("getContentNiche")
          /\ UNCHANGED <<niche, pc, jobId>>
       \/ /\ GetContentNiche(niches, GetJob(jobs, retry.jobId).niche) = NoNiche
          /\ RetryReject("Niche not found")
          /\ UNCHANGED <<niche, pc, jobId>>
       \/ /\ GetContentNiche(niches, GetJob(jobs, retry.jobId).niche) # NoNiche
          /\ niche' = GetContentNiche(niches, GetJob(jobs, retry.jobId).niche)
          /\ retry' = [retry EXCEPT !.pc = "run"]
          /\ pc' = "generateVideo"
          /\ jobId' = retry.jobId
    /\ UNCHANGED <<niches, sched, col, poll, calc, videoId, err, topics, storeVars,
                   uuidCount, fanVars, threw, endVars, trace>>

\* Fault seeded into retryFailedJob: the given job is updated, its
\* retryCount counts the retry.
RetryGetNicheCounting ==
    /\ retry.pc = "getContentNiche"
    /\ \/ /\ RetryReject("getContentNiche")
          /\ UNCHANGED <<niche, pc, jobId, jobs>>
       \/ /\ GetContentNiche(niches, GetJob(jobs, retry.jobId).niche) = NoNiche
          /\ RetryReject("Niche not found")
          /\ UNCHANGED <<niche, pc, jobId, jobs>>
       \/ /\ GetContentNiche(niches, GetJob(jobs, retry.jobId).niche) # NoNiche
          /\ niche' = GetContentNiche(niches, GetJob(jobs, retry.jobId).niche)
          /\ retry' = [retry EXCEPT !.pc = "run"]
          /\ pc' = "createJob"
          /\ jobs' = [jobs EXCEPT ![retry.jobId].retryCount = @ + 1]
          /\ UNCHANGED jobId
    /\ UNCHANGED <<niches, sched, col, poll, calc, videoId, err, topics, statusLog, videos,
                   videoLog, topicLog, uuidCount, fanVars, threw, endVars, trace>>

\* niche = await this.db.getContentNiche(job.niche);
\* if (!niche) throw new Error("Niche not found");
\* await this.generateAndPostVideo(niche)   -- up to its first await
RetryGetNiche ==
    /\ retry.pc = "getContentNiche"
    /\ \/ /\ RetryReject("getContentNiche")
          /\ UNCHANGED <<niche, pc, jobId>>
       \/ /\ GetContentNiche(niches, GetJob(jobs, retry.jobId).niche) = NoNiche
          /\ RetryReject("Niche not found")
          /\ UNCHANGED <<niche, pc, jobId>>
       \/ /\ GetContentNiche(niches, GetJob(jobs, retry.jobId).niche) # NoNiche
          /\ niche' = GetContentNiche(niches, GetJob(jobs, retry.jobId).niche)
          /\ retry' = [retry EXCEPT !.pc = "run"]
          /\ pc' = "createJob"
          /\ UNCHANGED jobId
    /\ UNCHANGED <<niches, sched, col, poll, calc, videoId, err, topics, storeVars,
                   uuidCount, fanVars, threw, endVars, trace>>

\* The awaited run settles: retryFailedJob returns, or its catch block logs
\* and rethrows the run's error.
RetrySettle ==
    /\ retry.pc = "run"
    /\ pc = "done"
    /\ \/ /\ outcome = "returned"
          /\ retry' = [retry EXCEPT !.pc = "done", !.outcome = "returned"]
       \/ /\ outcome = "rejected"
          /\ RetryReject(rejectedWith)
    /\ UNCHANGED <<niche, niches, sched, col, poll, calc, pc, jobId, videoId, err, topics, storeVars,
                   uuidCount, fanVars, threw, endVars, trace>>

NextRetry ==
    \/ CreateJobStep
    \/ SetRunning
    \/ FetchTopics
    \/ SaveTopics
    \/ LoadRecent
    \/ GeneratePrompt
    \/ GenerateVideo
    \/ DownloadVideo
    \/ UploadVideo
    \/ SaveVideo
    \/ StartFanout
    \/ YouTubeSetCredentials
    \/ YouTubeUpload
    \/ YouTubeRead
    \/ YouTubeSave
    \/ InstagramRead
    \/ InstagramPostReel
    \/ InstagramSave
    \/ TikTokPostVideo
    \/ TikTokRead
    \/ TikTokSave
    \/ AwaitFanout
    \/ SetCompleted
    \/ SetPosted
    \/ Catch
    \/ RetryCall
    \/ RetryGetJob
    \/ RetryGetNiche
    \/ RetrySettle

SpecRetry == InitRetry /\ [][NextRetry]_vars

(***************************************************************************)
(* Properties of retryFailedJob                                             *)
(***************************************************************************)

\* The job retryFailedJob was given, as it was stored when the call was made.
RetriedJob ==
    IF retry.jobId \in DOMAIN retry.before.jobs
    THEN retry.before.jobs[retry.jobId]
    ELSE [status |-> "missing"]

\* The record store as it was when retryFailedJob was called.
StoreAsBefore ==
    /\ jobs = retry.before.jobs
    /\ videos = retry.before.videos
    /\ topicLog = retry.before.topicLog
    /\ uuidCount = retry.before.uuidCount

\* C18: retryFailedJob given an id no job has, or the id of a queued,
\* running or completed job, throws, and from the call to the throw no job
\* record is created, no step of the run (topics, prompt, video generation)
\* is begun, no video record is written and no platform post is attempted.
C18_RetryRefusedWithoutEffect ==
    (retry.pc # "idle" /\ RetriedJob.status \in {"missing", "queued", "running", "completed"})
        => /\ StoreAsBefore
           /\ trace = <<>>
           /\ videoLog = <<>>
           /\ started = {}
           /\ postCalled = {}
           /\ pc = "idle"
           /\ retry.pc = "done" => retry.outcome = "rejected"
           /\ retry.pc # "getContentNiche"

\* A completed job was given to retryFailedJob and the call has thrown.
C18_Witness ==
    /\ retry.pc = "done"
    /\ RetriedJob.status = "completed"
    /\ retry.outcome = "rejected"
    /\ retry.error = "Job not found or not in failed status"

\* C19: retryFailedJob given a failed job whose niche resolves runs
\* generateAndPostVideo from its first step: the run begins at createJob and
\* follows the contract's order, the job it works on is a new record (the
\* given one is not reused), the video id is newly generated (no id handed
\* out before the call), a video record is written only after prompt and
\* video generation were requested again, and a run that returns has begun
\* every step.
C19_RetryIsAFullFreshRun ==
    retry.pc \in {"run", "done"} /\ (retry.pc = "run" \/ pc = "done")
        => /\ RetriedJob.status = "failed"
           /\ trace # <<>> => trace[1] = "createJob"
           /\ IsPrefix(ContractSteps, ContractOrder)
           /\ jobId # 0 => /\ jobId = Len(retry.before.jobs) + 1
                           /\ Len(jobs) = Len(retry.before.jobs) + 1
                           /\ jobId # retry.jobId
           /\ videoId # 0 => /\ videoId > retry.before.uuidCount
                             /\ videoId # retry.failedRun
                             /\ videoId \notin DOMAIN retry.before.videos
           /\ videoLog # <<>> =>
                 /\ Count(trace, "generatePrompt") = 1
                 /\ Count(trace, "generateVideo") = 1
                 /\ \A i \in DOMAIN videoLog : videoLog[i].id = videoId
           /\ outcome = "returned" => ContractSteps = ContractOrder

\* A job that failed after its video id was generated is retried, and the
\* retry returns with a new job and a new video id.
C19_Witness ==
    /\ retry.pc = "done"
    /\ retry.outcome = "returned"
    /\ RetriedJob.status = "failed"
    /\ retry.failedRun = 1
    /\ returned = 2
    /\ Len(jobs) = 2
    /\ jobs[2].status = "completed"

\* C31: retryFailedJob never modifies the job record it is given: from the
\* call on, whether the new run succeeds or fails, the given job is stored
\* as it was (a failed job keeps status failed, its error text and
\* retryCount 0), and every job record ever created has retryCount 0.
C31_RetryLeavesTheGivenJob ==
    /\ \A j \in DOMAIN jobs : jobs[j].retryCount = 0
    /\ (retry.pc # "idle" /\ retry.jobId \in DOMAIN retry.before.jobs)
          => /\ jobs[retry.jobId] = RetriedJob
             /\ retry.pc \in {"run", "done"} /\ RetriedJob.status = "failed"
                   => /\ jobs[retry.jobId].status = "failed"
                      /\ jobs[retry.jobId].error = RetriedJob.error
                      /\ jobs[retry.jobId].error # NoError
                      /\ jobs[retry.jobId].retryCount = 0

\* C31 witness: a failed job was retried, the new run failed too, and the
\* given job is stored as before next to the new one.
C31_Witness ==
    /\ retry.pc = "done"
    /\ retry.outcome = "rejected"
    /\ RetriedJob.status = "failed"
    /\ Len(jobs) = 2
    /\ jobs[2].status = "failed"
    /\ jobs[retry.jobId] = RetriedJob
    /\ jobs[2].error # jobs[1].error

(***************************************************************************)
(* scheduledVideoGenerator (functions/scheduled-video-generator.ts)         *)
(*                                                                          *)
(* sched.invoked lists the calls of generateAndPostVideo in order, each     *)
(* with the state of the previous run at the moment of the call;            *)
(* sched.results lists how the awaited runs settled; sched.logged lists     *)
(* the errors the loop's catch block logged.                                *)
(***************************************************************************)

\* Largest number of configured niches.
MaxNiches == 2

\* The k-th configured niche: ids are distinct; odd niches post to YouTube,
\* even niches have no platform account.
NicheAt(k) ==
    [id |-> "n" \o ToString(k),
     socialAccounts |->
        IF k % 2 = 1
        THEN [youtube |-> "present", instagram |-> "absent", tiktok |-> "absent"]
        ELSE [youtube |-> "absent", instagram |-> "absent", tiktok |-> "absent"]]

\* The "niches" collection holds between 0 and MaxNiches niches.
InitSched ==
    /\ \E n \in 0..MaxNiches : niches = [k \in 1..n |-> NicheAt(k)]
    /\ niche = NoNiche
    /\ pc = "idle"
    /\ jobId = 0
    /\ videoId = 0
    /\ err = NoError
    /\ topics = 0
    /\ jobs = <<>>
    /\ statusLog = <<>>
    /\ videos = <<>>
    /\ videoLog = <<>>
    /\ topicLog = 0
    /\ uuidCount = 0
    /\ br = [p \in Platforms |-> idle]
    /\ started = {}
    /\ postCalled = {}
    /\ postOk = {}
    /\ threw = {}
    /\ outcome = "pending"
    /\ returned = 0
    /\ rejectedWith = NoError
    /\ trace = <<>>
    /\ retry = RetryIdle
    /\ sched = SchedIdle
    /\ col = ColIdle
    /\ poll = PollIdle
    /\ calc = CalcIdle

\* What scheduledVideoGenerator rejects with (outer catch: log and rethrow).
SchedReject(message) ==
    sched' = [sched EXCEPT !.pc = "done", !.outcome = "rejected", !.error = message]

\* What a scheduler step outside a run leaves alone.
schedFrame == <<niches, retry, col, poll, calc, jobs, statusLog, videos, topicLog, uuidCount>>

\* Everything of the current run.
runState == <<niche, pc, jobId, videoId, err, topics, videoLog, fanVars, threw, endVars, trace>>

\* The body of the loop for the k-th niche, up to the first await of
\* generateAndPostVideo(niche).
SchedInvoke(k, list) ==
    /\ niche' = list[k]
    /\ pc' = "createJob"
    /\ ResetRun
    /\ sched' = [sched EXCEPT !.pc = "run", !.i = k, !.list = list, !.listed = TRUE,
                    !.invoked = Append(@, [niche |-> list[k].id,
                                            previous |-> IF k = 1 THEN "none" ELSE outcome])]

\* The settings validateConfig looks at: whether each is set, and the
\* video provider.
Configs ==
    [projectId : BOOLEAN, storageBucket : BOOLEAN, anthropicApiKey : BOOLEAN,
     provider : {"fal", "replicate"}, falApiKey : BOOLEAN, replicateApiKey : BOOLEAN]

\* validateConfig(): the errors, in the order of the tests.
ValidateConfig(c) ==
    (IF ~c.projectId THEN <<"GCP_PROJECT_ID is required">> ELSE <<>>)
    \o (IF ~c.storageBucket THEN <<"GCP_STORAGE_BUCKET is required">> ELSE <<>>)
    \o (IF ~c.anthropicApiKey THEN <<"ANTHROPIC_API_KEY is required">> ELSE <<>>)
    \o (IF c.provider = "fal" /\ ~c.falApiKey
        THEN <<"FAL_API_KEY is required when using fal provider">> ELSE <<>>)
    \o (IF c.provider = "replicate" /\ ~c.replicateApiKey
        THEN <<"REPLICATE_API_KEY is required when using replicate provider">> ELSE <<>>)

RECURSIVE JoinErrors(_)
\* errors.join(", ")
JoinErrors(errors) ==
    IF Len(errors) = 0 THEN ""
    ELSE IF Len(errors) = 1 THEN errors[1]
    ELSE errors[1] \o ", " \o JoinErrors(Tail(errors))

\* Fault seeded into the scheduler: the result of validateConfig is not
\* looked at.
SchedValidateLenient ==
    /\ sched.pc = "idle"
    /\ \E c \in Configs :
          sched' = [sched EXCEPT !.pc = "getAllContentNiches",
                                 !.configErrors = ValidateConfig(c)]
    /\ UNCHANGED <<schedFrame, runState>>

\* configValidation = validateConfig(); if (!configValidation.valid)
\* throw new Error(`Invalid configuration: ${errors.join(", ")}`)
SchedValidate ==
    /\ sched.pc = "idle"
    /\ \E c \in Configs :
          LET errors == ValidateConfig(c)
          IN IF Len(errors) = 0
             THEN sched' = [sched EXCEPT !.pc = "getAllContentNiches"]
             ELSE sched' = [sched EXCEPT !.pc = "done", !.outcome = "rejected",
                                         !.configErrors = errors,
                                         !.error = "Invalid configuration: " \o JoinErrors(errors)]
    /\ UNCHANGED <<schedFrame, runState>>

\* niches = await db.getAllContentNiches(); if (niches.length === 0) return;
\* otherwise the loop is entered
SchedListNiches ==
    /\ sched.pc = "getAllContentNiches"
    /\ \/ /\ sched' = [sched EXCEPT !.pc = "done", !.outcome = "rejected", !.listed = TRUE,
                                      !.error = "getAllContentNiches"]
          /\ UNCHANGED runState
       \/ /\ niches = <<>>
          /\ sched' = [sched EXCEPT !.pc = "done", !.outcome = "returned", !.listed = TRUE]
          /\ UNCHANGED runState
       \/ /\ niches # <<>>
          /\ SchedInvoke(1, niches)
    /\ UNCHANGED schedFrame

\* Fault seeded into the loop: the run is not awaited, the loop goes on
\* while the run is still in flight.
SchedAfterRunNotAwaiting ==
    /\ sched.pc = "run"
    /\ sched' = [sched EXCEPT !.pc = "sleep",
                    !.results = Append(@, outcome),
                    !.logged = IF outcome = "rejected" THEN Append(@, rejectedWith) ELSE @]
    /\ UNCHANGED <<schedFrame, runState>>

\* The awaited run settles: try { videoId = await generateAndPostVideo(niche) }
\* catch (error) { logger.error(...) }, then the loop reaches sleep(10000).
SchedAfterRun ==
    /\ sched.pc = "run"
    /\ pc = "done"
    /\ sched' = [sched EXCEPT !.pc = "sleep",
                    !.results = Append(@, outcome),
                    !.logged = IF outcome = "rejected" THEN Append(@, rejectedWith) ELSE @]
    /\ UNCHANGED <<schedFrame, runState>>

\* await sleep(10000) resolves: the next iteration, or the end of the loop.
SchedSleep ==
    /\ sched.pc = "sleep"
    /\ \/ /\ sched.i < Len(sched.list)
          /\ SchedInvoke(sched.i + 1, sched.list)
       \/ /\ sched.i >= Len(sched.list)
          /\ sched' = [sched EXCEPT !.pc = "done", !.outcome = "returned"]
          /\ UNCHANGED runState
    /\ UNCHANGED schedFrame

\* Fault seeded into the handler: it answers 500 when a run failed.
GenerateVideosRespondStrict ==
    /\ sched.pc = "done"
    /\ sched.http = NoResponse
    /\ sched' = [sched EXCEPT !.http =
                    IF sched.outcome = "returned" /\ sched.logged = <<>>
                    THEN [status |-> 200, success |-> TRUE,
                          text |-> "Video generation completed"]
                    ELSE [status |-> 500, success |-> FALSE,
                          text |-> IF sched.outcome = "returned" THEN sched.logged[1]
                                                                 ELSE sched.error]]
    /\ UNCHANGED <<schedFrame, runState>>

\* The generateVideos handler (index.ts) after `await
\* scheduledVideoGenerator(cloudEvent)`: res.status(200).send({success: true,
\* message}), or in its catch block res.status(500).send({success: false,
\* error: error.message}).
GenerateVideosRespond ==
    /\ sched.pc = "done"
    /\ sched.http = NoResponse
    /\ sched' = [sched EXCEPT !.http =
                    IF sched.outcome = "returned"
                    THEN [status |-> 200, success |-> TRUE,
                          text |-> "Video generation completed"]
                    ELSE [status |-> 500, success |-> FALSE, text |-> sched.error]]
    /\ UNCHANGED <<schedFrame, runState>>

NextSched ==
    \/ SchedValidate
    \/ SchedListNiches
    \/ SchedAfterRun
    \/ SchedSleep
    \/ GenerateVideosRespond
    \/ CreateJobStep
    \/ SetRunning
    \/ FetchTopics
    \/ SaveTopics
    \/ LoadRecent
    \/ GeneratePrompt
    \/ GenerateVideo
    \/ DownloadVideo
    \/ UploadVideo
    \/ SaveVideo
    \/ StartFanout
    \/ YouTubeSetCredentials
    \/ YouTubeUpload
    \/ YouTubeRead
    \/ YouTubeSave
    \/ AwaitFanout
    \/ SetCompleted
    \/ SetPosted
    \/ Catch

SpecSched == InitSched /\ [][NextSched]_vars

(***************************************************************************)
(* Properties of scheduledVideoGenerator                                    *)
(***************************************************************************)

\* The ids of the first n niches of a list, in order.
NicheIds(list, n) == [k \in 1..n |-> list[k].id]

\* C20: scheduledVideoGenerator calls generateAndPostVideo once per
\* configured niche, in the order of the list; each call but the first is
\* made after the previous run returned or threw; every run that threw is
\* logged; and once the loop is entered the scheduler ends only after the
\* run of the last niche, returning normally whatever the runs did.
C20_OncePerNicheSequentially ==
    /\ Len(sched.invoked) <= Len(niches)
    /\ [k \in DOMAIN sched.invoked |-> sched.invoked[k].niche]
          = NicheIds(niches, Len(sched.invoked))
    /\ \A k \in DOMAIN sched.invoked :
          k > 1 => sched.invoked[k].previous \in {"returned", "rejected"}
    /\ Len(sched.results) \in {Len(sched.invoked) - 1, Len(sched.invoked)}
    /\ Len(sched.logged) = Count(sched.results, "rejected")
    /\ sched.pc = "done" /\ sched.invoked # <<>> =>
          /\ Len(sched.invoked) = Len(niches)
          /\ Len(sched.results) = Len(niches)
          /\ sched.outcome = "returned"
    /\ sched.pc = "done" /\ sched.outcome = "returned" =>
          Len(sched.invoked) = Len(niches)

\* The run of the first niche threw, the run of the second niche was made
\* all the same and returned, and the scheduler has ended.
C20_Witness ==
    /\ sched.pc = "done"
    /\ Len(sched.results) = 2
    /\ sched.results[1] = "rejected"
    /\ sched.results[2] = "returned"
    /\ Len(sched.logged) = 1

\* C32: the generateVideos handler answers 200 with success whenever
\* scheduledVideoGenerator returned, also when every run it made threw; it
\* answers 500, with the error message, only when scheduledVideoGenerator
\* itself threw, which it does for an invalid configuration or a failure
\* to list the niches, before any run.
C32_HandlerStatus ==
    /\ sched.http.status \in {0, 200, 500}
    /\ sched.http.status # 0 => sched.pc = "done"
    /\ sched.http.status = 200
          => /\ sched.outcome = "returned"
             /\ sched.http.success
    /\ sched.http.status = 500
          => /\ sched.outcome = "rejected"
             /\ ~sched.http.success
             /\ sched.http.text = sched.error
             /\ sched.error = "getAllContentNiches" \/ sched.configErrors # <<>>
             /\ sched.error # NoError
             /\ sched.invoked = <<>>
    /\ (sched.pc = "done" /\ sched.results # <<>>) => sched.http.status \in {0, 200}

\* C32 witness: the run of every configured niche threw and the handler
\* answered 200.
C32_Witness ==
    /\ sched.http.status = 200
    /\ Len(niches) = 2
    /\ sched.results = <<"rejected", "rejected">>

\* Nothing of a run has happened: no job record, no video record, no step
\* begun, no video id drawn, no platform post attempted.
NoRunEffect ==
    /\ jobs = <<>>
    /\ statusLog = <<>>
    /\ videos = <<>>
    /\ videoLog = <<>>
    /\ topicLog = 0
    /\ uuidCount = 0
    /\ trace = <<>>
    /\ started = {}
    /\ postCalled = {}
    /\ pc = "idle"

\* C33: if validateConfig reports any error, scheduledVideoGenerator throws
\* before listing the niches or invoking the orchestrator, and if no niche
\* is configured it returns without invoking the orchestrator; in both
\* cases no job record is created and no generation or posting call is
\* made.
C33_NothingRunsWithoutConfigOrNiches ==
    /\ sched.configErrors # <<>>
          => /\ sched.pc = "done"
             /\ sched.outcome = "rejected"
             /\ ~sched.listed
             /\ sched.invoked = <<>>
             /\ NoRunEffect
    /\ (sched.listed /\ sched.pc = "done" /\ sched.outcome = "returned" /\ niches = <<>>)
          => /\ sched.invoked = <<>>
             /\ NoRunEffect
    /\ (sched.pc = "done" /\ niches = <<>>) => sched.invoked = <<>>

\* C33 witness: two settings were missing and the scheduler threw with
\* both errors in its message, niches being configured.
C33_Witness ==
    /\ Len(sched.configErrors) = 2
    /\ sched.error = "Invalid configuration: GCP_PROJECT_ID is required, ANTHROPIC_API_KEY is required"
    /\ sched.outcome = "rejected"
    /\ niches # <<>>

(***************************************************************************)
(* analyticsCollector (functions/analytics-collector.ts)                    *)
(*                                                                          *)
(* The collector is triggered on its own schedule, so its steps interleave  *)
(* with those of a run.  col.list, col.videos and col.video are its local   *)
(* copies (niches, recentVideos, the video being processed); col.queried    *)
(* is the set of entries whose analytics were requested, col.rows the       *)
(* analytics rows written, col.logged the errors logged, col.saves the      *)
(* number of video records written back, col.listed the niches whose        *)
(* videos were asked for, col.recent the listed videos created within the   *)
(* last 7 days, col.visited the videos collectVideoAnalytics was called on, *)
(* col.wrote the records written back, each with the stored record it       *)
(* replaced.                                                                *)
(***************************************************************************)

\* The elements of a finite set of numbers, largest first.
RECURSIVE Descending(_)
Descending(S) ==
    IF S = {} THEN <<>>
    ELSE LET m == CHOOSE x \in S : \A y \in S : y <= x
         IN <<m>> \o Descending(S \ {m})

\* getVideosByNiche: where("niche", "==", niche).orderBy("createdAt", "desc");
\* ids are handed out in the order of creation.
GetVideosByNiche(vs, id) ==
    LET ids == Descending({k \in DOMAIN vs : vs[k].niche = id})
    IN [k \in DOMAIN ids |-> vs[ids[k]]]

\* Fault seeded into the filter: every recent video is collected, whatever
\* its status.
IsCollectedAnyStatus(video, recent) ==
    recent

\* The filter of recentVideos: daysSinceCreated <= 7 && status === "posted".
IsCollected(video, recent) ==
    recent /\ video.status = "posted"

\* The credential guards inside the switch of collectVideoAnalytics.
AnalyticsEligible(n, p) ==
    CASE p = "youtube" -> n.socialAccounts.youtube = "present"
      [] p = "instagram" -> n.socialAccounts.instagram = "present"
      [] p = "tiktok" -> n.socialAccounts.tiktok = "token"

\* A platform post whose analytics are requested: status posted, a post id,
\* and the platform's credential in the niche.
Queried(post, n) ==
    /\ post.status = "posted"
    /\ post.postId # ""
    /\ AnalyticsEligible(n, post.platform)

\* The first entry at or after `from` that reaches an await (0: none); the
\* entries before it are passed over without one.
NextQueried(video, n, from) ==
    LET ks == {k \in DOMAIN video.platforms : k >= from /\ Queried(video.platforms[k], n)}
    IN IF ks = {} THEN 0 ELSE CHOOSE k \in ks : \A j \in ks : k <= j

\* Fault seeded into the update of the entry: its status is rewritten along
\* with the metrics.
WithMetricsAndStatus(post) ==
    [views |-> "latest", likes |-> "latest", comments |-> "latest"]
        @@ [post EXCEPT !.status = "pending"]

\* platformPost.views = ...; .likes = ...; .comments = ...
WithMetrics(post) ==
    [views |-> "latest", likes |-> "latest", comments |-> "latest"] @@ post

\* The loop over video.platforms from entry `from` up to the next await:
\* the analytics query of an entry, or the final saveVideoMetadata.
ColToPost(c, from) ==
    LET k == NextQueried(c.video, c.list[c.i], from)
    IN IF k # 0
       THEN [c EXCEPT !.pc = "query", !.p = k]
       ELSE [c EXCEPT !.pc = "saveVideoMetadata", !.p = 0]

\* The end of the loop over the niches, or its next iteration up to
\* getVideosByNiche.
ColToNiche(c, i) ==
    IF i <= Len(c.list)
    THEN [c EXCEPT !.pc = "getVideosByNiche", !.i = i, !.videos = <<>>, !.v = 0,
                   !.video = NoVideo, !.p = 0]
    ELSE [c EXCEPT !.pc = "done", !.outcome = "returned", !.videos = <<>>, !.v = 0,
                   !.video = NoVideo, !.p = 0]

\* collectVideoAnalytics(recentVideos[v]) up to its first await, or the end
\* of the loop over the videos.
ColToVideo(c, v) ==
    IF v <= Len(c.videos)
    THEN ColToPost([c EXCEPT !.v = v, !.video = c.videos[v],
                             !.visited = @ \cup {c.videos[v].id}], 1)
    ELSE ColToNiche(c, c.i + 1)

\* What a collector step leaves alone.
colFrame == <<niche, niches, retry, sched, poll, calc, pc, jobId, videoId, err, topics, jobs, statusLog,
              topicLog, uuidCount, fanVars, threw, endVars, trace>>

\* The collector is triggered and reaches `await db.getAllContentNiches()`.
ColTrigger ==
    /\ col.pc = "idle"
    /\ col' = [col EXCEPT !.pc = "getAllContentNiches"]
    /\ UNCHANGED <<colFrame, videos, videoLog>>

\* niches = await db.getAllContentNiches(); if (niches.length === 0) return
ColListNiches ==
    /\ col.pc = "getAllContentNiches"
    /\ \/ col' = [col EXCEPT !.pc = "done", !.outcome = "rejected",
                            !.error = "getAllContentNiches"]
       \/ col' = ColToNiche([col EXCEPT !.list = niches], 1)
    /\ UNCHANGED <<colFrame, videos, videoLog>>

\* videos = await db.getVideosByNiche(niche.id, 100); recentVideos = filter;
\* a throw is caught by the niche's catch block
ColGetVideos ==
    /\ col.pc = "getVideosByNiche"
    /\ \/ col' = ColToNiche([col EXCEPT !.logged = Append(@, "getVideosByNiche"),
                                         !.listed = Append(@, col.list[col.i].id)],
                             col.i + 1)
       \/ \E old \in SUBSET {k \in DOMAIN videos : videos[k].niche = col.list[col.i].id} :
             LET all == GetVideosByNiche(videos, col.list[col.i].id)
                 recentVideos == SelectSeq(all, LAMBDA video :
                                     IsCollected(video, video.id \notin old))
             IN col' = ColToVideo([col EXCEPT
                                      !.videos = recentVideos,
                                      !.listed = Append(@, col.list[col.i].id),
                                      !.recent = @ \cup ({all[k].id : k \in DOMAIN all} \ old)],
                                  1)
    /\ UNCHANGED <<colFrame, videos, videoLog>>

\* stats = await <platform>.getVideoAnalytics / getReelAnalytics(postId);
\* a throw is caught by the entry's catch block
ColQuery ==
    /\ col.pc = "query"
    /\ LET post == col.video.platforms[col.p]
           asked == [col EXCEPT !.queried = @ \cup {<<col.video.id, col.p>>}]
       IN \/ col' = ColToPost([asked EXCEPT !.logged = Append(@, post.platform)], col.p + 1)
          \/ col' = [asked EXCEPT !.pc = "saveAnalytics"]
    /\ UNCHANGED <<colFrame, videos, videoLog>>

\* await db.saveAnalytics(analytics); platformPost.views = ... ;
\* a throw is caught by the entry's catch block
ColSaveAnalytics ==
    /\ col.pc = "saveAnalytics"
    /\ LET post == col.video.platforms[col.p]
       IN \/ col' = ColToPost([col EXCEPT !.logged = Append(@, "saveAnalytics")], col.p + 1)
          \/ col' = ColToPost([col EXCEPT
                                  !.rows = Append(@, <<col.video.id, post.platform>>),
                                  !.video.platforms[col.p] = WithMetrics(post)],
                              col.p + 1)
    /\ UNCHANGED <<colFrame, videos, videoLog>>

\* await db.saveVideoMetadata(video) at the end of collectVideoAnalytics;
\* a throw leaves the loop over the videos for the niche's catch block
ColSaveVideo ==
    /\ col.pc = "saveVideoMetadata"
    /\ \/ /\ col' = ColToNiche([col EXCEPT !.logged = Append(@, "saveVideoMetadata")],
                               col.i + 1)
          /\ UNCHANGED <<videos, videoLog>>
       \/ /\ videos' = SaveVideoMetadata(videos, col.video)
          /\ videoLog' = Append(videoLog, col.video)
          /\ col' = ColToVideo([col EXCEPT
                                    !.saves = @ + 1,
                                    !.wrote = Append(@, [before |-> GetVideoMetadata(videos, col.video.id),
                                                         after |-> col.video])],
                                col.v + 1)
    /\ UNCHANGED colFrame

NextAnalytics ==
    \/ ColTrigger
    \/ ColListNiches
    \/ ColGetVideos
    \/ ColQuery
    \/ ColSaveAnalytics
    \/ ColSaveVideo
    \/ CreateJobStep
    \/ SetRunning
    \/ FetchTopics
    \/ SaveTopics
    \/ LoadRecent
    \/ GeneratePrompt
    \/ GenerateVideo
    \/ DownloadVideo
    \/ UploadVideo
    \/ SaveVideo
    \/ StartFanout
    \/ YouTubeSetCredentials
    \/ YouTubeUpload
    \/ YouTubeRead
    \/ YouTubeSave
    \/ InstagramRead
    \/ InstagramPostReel
    \/ InstagramSave
    \/ TikTokPostVideo
    \/ TikTokRead
    \/ TikTokSave
    \/ AwaitFanout
    \/ SetCompleted
    \/ SetPosted
    \/ Catch

\* One run of generateAndPostVideo and one collection, concurrently.
SpecAnalytics == Init /\ [][NextAnalytics]_vars

(***************************************************************************)
(* Properties of the video status under concurrent whole-record saves       *)
(***************************************************************************)

\* generating -> ready -> posted, and failed from any state.
StatusMovesForward(a, b) ==
    \/ a = b
    \/ b = "failed"
    \/ a = "generating" /\ b \in {"ready", "posted"}
    \/ a = "ready" /\ b = "posted"

\* C16: the stored top-level status of a video record only moves forward:
\* between two successive stored versions of the record the status stays,
\* goes from ready to posted, or goes to failed; in particular no
\* write-back of a copy by a fan-out branch or by the analytics collector
\* turns a posted record into a ready one.
C16_StatusOnlyForward ==
    /\ \A i \in 1..(Len(videoLog) - 1) :
          StatusMovesForward(videoLog[i].status, videoLog[i + 1].status)
    /\ \A i, j \in DOMAIN videoLog :
          i < j /\ videoLog[i].status = "posted" => videoLog[j].status # "ready"

\* A fan-out branch wrote its copy back while the record was ready, the run
\* set it to posted, and the collector then wrote its own copy back.
C16_Witness ==
    /\ col.saves = 1
    /\ Len(videoLog) >= 4
    /\ videoLog[2].status = "ready"
    /\ videoLog[2].platforms # <<>>
    /\ videoLog[Len(videoLog) - 1].status = "posted"
    /\ videoLog[Len(videoLog)].status = "posted"
    /\ col.rows # <<>>

(***************************************************************************)
(* analyticsCollector over a populated store                                *)
(*                                                                          *)
(* No run is in flight.  The "videos" collection holds documents of the     *)
(* declared VideoMetadata type: ready or posted, with platform entries that *)
(* are posted, or failed, with or without a post id.                        *)
(***************************************************************************)

\* Largest number of stored video records.
MaxVideos == 2

\* The k-th configured niche: odd niches hold every credential, even niches
\* the YouTube credential, no Instagram entry and a TikTok entry without
\* accessToken.
ColNicheAt(k) ==
    [id |-> "n" \o ToString(k),
     socialAccounts |->
        IF k % 2 = 1
        THEN [youtube |-> "present", instagram |-> "present", tiktok |-> "token"]
        ELSE [youtube |-> "present", instagram |-> "absent", tiktok |-> "noToken"]]

\* A PlatformPost; postId "" stands for an absent post id.
PlatformPost(platform, status, postId) ==
    [platform |-> platform, status |-> status, postId |-> postId]

\* The platforms lists of the stored records.
PlatformLists ==
    {<<>>,
     <<PlatformPost("youtube", "posted", "youtube"),
       PlatformPost("instagram", "posted", "instagram")>>,
     <<PlatformPost("tiktok", "failed", "tiktok"),
       PlatformPost("instagram", "posted", ""),
       PlatformPost("tiktok", "posted", "tiktok")>>}

\* The stored video records: ids 1..m in the order of creation, each of a
\* configured niche.
StoredVideos(n) ==
    UNION {[1..m -> [niche : {ColNicheAt(k).id : k \in 1..n},
                     status : {"ready", "posted"},
                     platforms : PlatformLists]] : m \in 0..MaxVideos}

InitCollect ==
    /\ \E n \in 0..MaxNiches :
          /\ niches = [k \in 1..n |-> ColNicheAt(k)]
          /\ \E vs \in StoredVideos(n) :
                videos = [id \in DOMAIN vs |->
                             [id |-> id, niche |-> vs[id].niche, status |-> vs[id].status,
                              platforms |-> vs[id].platforms]]
    /\ uuidCount = Len(videos)
    /\ niche = NoNiche
    /\ pc = "idle"
    /\ jobId = 0
    /\ videoId = 0
    /\ err = NoError
    /\ topics = 0
    /\ jobs = <<>>
    /\ statusLog = <<>>
    /\ videoLog = <<>>
    /\ topicLog = 0
    /\ br = [p \in Platforms |-> idle]
    /\ started = {}
    /\ postCalled = {}
    /\ postOk = {}
    /\ threw = {}
    /\ outcome = "pending"
    /\ returned = 0
    /\ rejectedWith = NoError
    /\ trace = <<>>
    /\ retry = RetryIdle
    /\ sched = SchedIdle
    /\ col = ColIdle
    /\ poll = PollIdle
    /\ calc = CalcIdle

NextCollect ==
    \/ ColTrigger
    \/ ColListNiches
    \/ ColGetVideos
    \/ ColQuery
    \/ ColSaveAnalytics
    \/ ColSaveVideo

SpecCollect == InitCollect /\ [][NextCollect]_vars

(***************************************************************************)
(* Properties of analyticsCollector                                         *)
(***************************************************************************)

\* The videos the collection is about: listed, created within the last 7
\* days, top-level status posted.
Collectable == {id \in col.recent : videos[id].status = "posted"}

\* C21: a failure while processing one platform post or one video,
\* the write-back of the video record included, is caught and logged on its
\* own and aborts neither the remaining videos of the niche nor the
\* remaining niches: a collection that got its list of niches asks for the
\* videos of every niche and calls collectVideoAnalytics on every recent
\* posted video it was given, whatever failed on the way, and logs each
\* failure.
C21_FailuresNeverAbort ==
    col.pc = "done" /\ col.outcome = "returned" =>
        /\ col.listed = NicheIds(col.list, Len(col.list))
        /\ Collectable \subseteq col.visited

\* The entries the collection is about: entries with status posted and a
\* post id, inside the recent posted videos.
PostedWithId ==
    UNION {{<<id, k>> : k \in {j \in DOMAIN videos[id].platforms :
                                  /\ videos[id].platforms[j].status = "posted"
                                  /\ videos[id].platforms[j].postId # ""}}
           : id \in Collectable}

\* C22: the collector requests analytics, and writes an analytics row, only
\* for entries with status posted and a post id inside recent posted
\* videos, and a finished collection has requested the analytics of every
\* such entry of every niche.
C22_QueriesExactlyThePostedEntries ==
    /\ col.queried \subseteq PostedWithId
    /\ \A r \in DOMAIN col.rows :
          \E e \in PostedWithId :
             /\ e[1] = col.rows[r][1]
             /\ videos[e[1]].platforms[e[2]].platform = col.rows[r][2]
    /\ col.pc = "done" /\ col.outcome = "returned" => PostedWithId \subseteq col.queried

\* Two versions of a video record that differ at most in the views, likes
\* and comments of their entries.
SameButMetrics(a, b) ==
    /\ a.id = b.id
    /\ a.niche = b.niche
    /\ a.status = b.status
    /\ Len(a.platforms) = Len(b.platforms)
    /\ \A k \in DOMAIN a.platforms :
          /\ a.platforms[k].platform = b.platforms[k].platform
          /\ a.platforms[k].status = b.platforms[k].status
          /\ a.platforms[k].postId = b.platforms[k].postId

\* The entries of a record that carry metrics.
Measured(video) ==
    {k \in DOMAIN video.platforms : "views" \in DOMAIN video.platforms[k]}

\* C23: every record the collector writes back equals the stored record it
\* replaces except for the views, likes and comments of its entries: same
\* top-level status, the same entries in the same order, each with the
\* same platform, status and post id; and metrics are set on exactly the
\* entries an analytics row was written for.
C23_CollectionChangesOnlyMetrics ==
    \A w \in DOMAIN col.wrote :
        /\ SameButMetrics(col.wrote[w].before, col.wrote[w].after)
        /\ Measured(col.wrote[w].before) \subseteq Measured(col.wrote[w].after)

\* The collector wrote back the record of a finished run with the metrics
\* of an entry set, over a stored record that had none.
C23_Witness ==
    /\ col.wrote # <<>>
    /\ col.wrote[1].before.status = "posted"
    /\ Len(col.wrote[1].before.platforms) >= 2
    /\ Measured(col.wrote[1].before) = {}
    /\ Measured(col.wrote[1].after) # {}
    /\ videos[col.wrote[1].after.id] = col.wrote[1].after

(***************************************************************************)
(* The status-polling loops: generateWithFal, generateWithReplicate         *)
(* (services/video-generator.ts) and waitForMediaProcessing                 *)
(* (services/instagram-poster.ts)                                           *)
(*                                                                          *)
(* poll.attempts is the loop counter, poll.queries the number of status     *)
(* queries issued, poll.last the last status received, poll.videoUrl the    *)
(* local `videoUrl` ("" is null).  A status query returns a status or       *)
(* throws; a completion response carries a video URL or none.               *)
(***************************************************************************)

\* const maxAttempts = 60 in generateWithFal
FalMaxAttempts == 60

\* const maxAttempts = 60 in generateWithReplicate
ReplicateMaxAttempts == 60

\* maxAttempts: number = 20 in waitForMediaProcessing
InstagramMaxAttempts == 20

MaxAttempts(kind) ==
    CASE kind = "fal" -> FalMaxAttempts
      [] kind = "replicate" -> ReplicateMaxAttempts
      [] kind = "instagram" -> InstagramMaxAttempts

\* The statuses a status query can report.
Statuses(kind) ==
    CASE kind = "fal" -> {"COMPLETED", "FAILED", "IN_PROGRESS"}
      [] kind = "replicate" -> {"succeeded", "failed", "canceled", "processing"}
      [] kind = "instagram" -> {"FINISHED", "ERROR", "IN_PROGRESS"}

\* The loop has been entered: the request was submitted (fal, Replicate) or
\* the media container created (Instagram).
InitPoll ==
    /\ \E kind \in {"fal", "replicate", "instagram"} :
          poll = [PollIdle EXCEPT !.kind = kind, !.pc = "sleep"]
    /\ niche = NoNiche
    /\ niches = <<>>
    /\ pc = "idle"
    /\ jobId = 0
    /\ videoId = 0
    /\ err = NoError
    /\ topics = 0
    /\ jobs = <<>>
    /\ statusLog = <<>>
    /\ videos = <<>>
    /\ videoLog = <<>>
    /\ topicLog = 0
    /\ uuidCount = 0
    /\ br = [p \in Platforms |-> idle]
    /\ started = {}
    /\ postCalled = {}
    /\ postOk = {}
    /\ threw = {}
    /\ outcome = "pending"
    /\ returned = 0
    /\ rejectedWith = NoError
    /\ trace = <<>>
    /\ retry = RetryIdle
    /\ sched = SchedIdle
    /\ col = ColIdle
    /\ calc = CalcIdle

\* What a step of a polling loop leaves alone.
pollFrame == <<niche, niches, retry, sched, col, calc, pc, jobId, videoId, err, topics, storeVars,
               uuidCount, fanVars, threw, endVars, trace>>

\* The function throws (its catch block logs and rethrows).
PollReject(q, message) ==
    [q EXCEPT !.pc = "done", !.outcome = "rejected", !.error = message]

\* The function returns.
PollReturn(q) ==
    [q EXCEPT !.pc = "done", !.outcome = "returned", !.result = q.videoUrl]

\* Fault seeded into the loop condition: `<=` in place of `<`.
PollAgainInclusive(attempts, max) ==
    attempts <= max

\* while (attempts < maxAttempts) / for (...; attempt < maxAttempts; ...)
PollAgain(attempts, max) ==
    attempts < max

\* After the loops of generateWithFal and generateWithReplicate:
\* if (!videoUrl) throw new Error("Video generation timed out"); return {videoUrl, ...}
AfterVideoLoop(q) ==
    IF q.videoUrl = ""
    THEN PollReject(q, "Video generation timed out")
    ELSE PollReturn(q)

\* attempts++ and the loop condition of generateWithFal / generateWithReplicate
NextVideoAttempt(q) ==
    LET r == [q EXCEPT !.attempts = @ + 1]
    IN IF PollAgain(r.attempts, MaxAttempts(r.kind))
       THEN [r EXCEPT !.pc = "sleep"]
       ELSE AfterVideoLoop(r)

\* await this.sleep(5000) at the head of an iteration
PollSleep ==
    /\ poll.pc = "sleep"
    /\ poll' = [poll EXCEPT !.pc = "query"]
    /\ UNCHANGED pollFrame

\* The status query of generateWithFal and the rest of the iteration.
FalQuery ==
    /\ poll.kind = "fal"
    /\ poll.pc = "query"
    /\ \/ poll' = PollReject([poll EXCEPT !.queries = @ + 1], "status query")
       \/ \E status \in Statuses("fal"), url \in {"", "url"} :
             LET q == [poll EXCEPT !.queries = @ + 1, !.last = status]
             IN poll' = CASE status = "COMPLETED" -> AfterVideoLoop([q EXCEPT !.videoUrl = url])
                          [] status = "FAILED" -> PollReject(q, "Video generation failed")
                          [] OTHER -> NextVideoAttempt(q)
    /\ UNCHANGED pollFrame

\* The status query of generateWithReplicate and the rest of the iteration.
ReplicateQuery ==
    /\ poll.kind = "replicate"
    /\ poll.pc = "query"
    /\ \/ poll' = PollReject([poll EXCEPT !.queries = @ + 1], "status query")
       \/ \E status \in Statuses("replicate"), url \in {"", "url"} :
             LET q == [poll EXCEPT !.queries = @ + 1, !.last = status]
             IN poll' = CASE status = "succeeded" -> AfterVideoLoop([q EXCEPT !.videoUrl = url])
                          [] status \in {"failed", "canceled"} ->
                                PollReject(q, "Video generation " \o status)
                          [] OTHER -> NextVideoAttempt(q)
    /\ UNCHANGED pollFrame

\* The status query of waitForMediaProcessing and the rest of the iteration.
InstagramQuery ==
    /\ poll.kind = "instagram"
    /\ poll.pc = "query"
    /\ \/ poll' = PollReject([poll EXCEPT !.queries = @ + 1], "status query")
       \/ \E status \in Statuses("instagram") :
             LET q == [poll EXCEPT !.queries = @ + 1, !.last = status]
                 r == [q EXCEPT !.attempts = @ + 1]
             IN poll' = CASE status = "FINISHED" -> PollReturn(q)
                          [] status = "ERROR" -> PollReject(q, "Media processing failed")
                          [] OTHER ->
                                IF PollAgain(r.attempts, MaxAttempts("instagram"))
                                THEN [r EXCEPT !.pc = "sleep"]
                                ELSE PollReject(r, "Media processing timed out")
    /\ UNCHANGED pollFrame

NextPoll ==
    \/ PollSleep
    \/ FalQuery
    \/ ReplicateQuery
    \/ InstagramQuery

SpecPoll == InitPoll /\ [][NextPoll]_vars

\* Timers fire and HTTP requests settle: a loop that can take a step
\* eventually takes one.
SpecPollFair == SpecPoll /\ WF_vars(NextPoll)

(***************************************************************************)
(* Properties of the polling loops                                          *)
(***************************************************************************)

\* The statuses that end a loop.
TerminalStatuses ==
    {"COMPLETED", "FAILED", "succeeded", "failed", "canceled", "FINISHED", "ERROR"}

TimedOutErrors == {"Video generation timed out", "Media processing timed out"}

\* The loop never issues more status queries than its ceiling, and once the
\* ceiling is reached with every query answered by a non-terminal status
\* the function has thrown its timed-out error.
PollingIsCapped ==
    /\ poll.queries <= MaxAttempts(poll.kind)
    /\ (/\ poll.queries = MaxAttempts(poll.kind)
        /\ poll.last \notin TerminalStatuses
        /\ poll.error # "status query")
          => /\ poll.pc = "done"
             /\ poll.outcome = "rejected"
             /\ poll.error \in TimedOutErrors

\* C24: every status-polling loop terminates: it issues at most its
\* ceiling of status queries (60 for fal, 60 for Replicate, 20 for
\* Instagram), throws the timed-out error when the ceiling is reached
\* without a terminal status, and in every execution eventually returns or
\* throws.
C24_PollingTerminates ==
    /\ []PollingIsCapped
    /\ <>(poll.pc = "done")

\* The Instagram loop used all of its 20 queries and threw the timed-out
\* error.
C24_Witness ==
    /\ poll.kind = "instagram"
    /\ poll.pc = "done"
    /\ poll.queries = 20
    /\ poll.last = "IN_PROGRESS"
    /\ poll.error = "Media processing timed out"

(***************************************************************************)
(* The topic source as the run sees it                                      *)
(***************************************************************************)

\* The steps begun so far.
StepsBegun == {trace[i] : i \in DOMAIN trace}

\* C25: the topic source never throws into the orchestrator: when calls to
\* the trending-topic sources are the only calls that failed, the run is
\* not in its catch block and has not rejected, the topic step has yielded
\* a list (empty when every source failed), and the run is on its way to
\* prompt generation or past it.
C25_TopicSourceNeverThrows ==
    (threw # {} /\ threw \subseteq TopicSources)
        => /\ pc # "catch"
           /\ err = NoError
           /\ outcome # "rejected"
           /\ "fetchTopics" \in StepsBegun
           /\ topics \in 0..MaxTopics
           /\ threw = TopicSources => topics = 0
           /\ \/ pc \in {"saveTopics", "loadRecent", "generatePrompt"}
              \/ "generatePrompt" \in StepsBegun

\* C25 witness: both source calls failed, the list was empty, and the run
\* generated its prompt and went on to return.
C25_Witness ==
    /\ threw = TopicSources
    /\ topics = 0
    /\ "generatePrompt" \in StepsBegun
    /\ outcome = "returned"

\* C26: when the topic fetch yields no topics the run is not failed: the
\* topic save is never called and the trending-topic log stays empty, the
\* prompt request carries no topics, the steps begun are those of the
\* contract in its order, no failure is raised unless a later fatal call
\* throws, and a run that returns has performed every step.
C26_NoTopicsIsNotAnError ==
    (topics = 0 /\ "fetchTopics" \in StepsBegun)
        => /\ "saveTopics" \notin StepsBegun
           /\ topicLog = 0
           /\ PromptRequest.trendingTopics = <<>>
           /\ IsPrefix(trace, ContractOrder)
           /\ threw \subseteq (TopicSources \cup FanoutSites)
                 => /\ pc # "catch"
                    /\ err = NoError
                    /\ outcome # "rejected"
                    /\ jobs[jobId].status \in {"running", "completed"}
           /\ outcome = "returned" => trace = ContractOrder

\* C26 witness: a run whose sources answered with no topics has returned
\* after every step of the contract.
C26_Witness ==
    /\ topics = 0
    /\ threw = {}
    /\ outcome = "returned"
    /\ trace = ContractOrder
    /\ jobs[jobId].status = "completed"

(***************************************************************************)
(* getStyleFromNiche: the content style of a niche                          *)
(***************************************************************************)

\* The most name fragments joined into one niche name.
MaxWords == 2

\* Strings are tuples of characters, so that containment is computed on
\* characters as String.prototype.includes does.
UpperCase == <<"A", "B", "C", "D", "E", "F", "G", "H", "I", "J", "K", "L", "M", "N", "O", "P", "Q", "R", "S", "T", "U", "V", "W", "X", "Y", "Z">>
LowerCase == <<"a", "b", "c", "d", "e", "f", "g", "h", "i", "j", "k", "l", "m", "n", "o", "p", "q", "r", "s", "t", "u", "v", "w", "x", "y", "z">>

\* String.prototype.toLowerCase on the letters A-Z.
ToLowerCase(str) ==
    [i \in DOMAIN str |->
        IF \E k \in DOMAIN UpperCase : UpperCase[k] = str[i]
        THEN LowerCase[CHOOSE k \in DOMAIN UpperCase : UpperCase[k] = str[i]]
        ELSE str[i]]

\* String.prototype.includes: part occurs in str as a contiguous run.
Includes(str, part) ==
    \E i \in 1..(Len(str) - Len(part) + 1) :
        SubSeq(str, i, i + Len(part) - 1) = part

\* The words of the educational test.
EducationalWords ==
    {<<"e", "d", "u", "c", "a", "t", "i", "o", "n">>,
     <<"l", "e", "a", "r", "n">>,
     <<"t", "u", "t", "o", "r", "i", "a", "l">>}

\* The words of the motivational test.
MotivationalWords ==
    {<<"m", "o", "t", "i", "v", "a", "t", "i", "o", "n">>,
     <<"i", "n", "s", "p", "i", "r", "e">>,
     <<"s", "u", "c", "c", "e", "s", "s">>}

\* The words of the news test.
NewsWords ==
    {<<"n", "e", "w", "s">>,
     <<"c", "u", "r", "r", "e", "n", "t">>,
     <<"t", "r", "e", "n", "d", "i", "n", "g">>}

\* Fault seeded into the order of the tests: the motivational test comes
\* first.
GetStyleFromNicheMotivationalFirst(n) ==
    LET nicheNameLower == ToLowerCase(n.name)
    IN IF \E w \in MotivationalWords : Includes(nicheNameLower, w) THEN "motivational"
       ELSE IF \E w \in EducationalWords : Includes(nicheNameLower, w) THEN "educational"
       ELSE IF \E w \in NewsWords : Includes(nicheNameLower, w) THEN "news"
       ELSE "entertainment"

\* getStyleFromNiche(niche)
GetStyleFromNiche(n) ==
    LET nicheNameLower == ToLowerCase(n.name)
    IN IF \E w \in EducationalWords : Includes(nicheNameLower, w) THEN "educational"
       ELSE IF \E w \in MotivationalWords : Includes(nicheNameLower, w) THEN "motivational"
       ELSE IF \E w \in NewsWords : Includes(nicheNameLower, w) THEN "news"
       ELSE "entertainment"

\* Pieces of niche names: the words of the tests in several spellings,
\* pieces that form such a word only when joined, and neutral pieces.
NameFragments ==
    {<<"E", "d", "u", "c", "a", "t", "i", "o", "n">>,
     <<"l", "e", "a", "r", "n">>,
     <<"T", "u", "t", "o", "r", "i", "a", "l", "s">>,
     <<"M", "o", "t", "i", "v", "a", "t", "i", "o", "n">>,
     <<"i", "n", "s", "p", "i", "r", "e">>,
     <<"S", "U", "C", "C", "E", "S", "S">>,
     <<"N", "e", "w", "s">>,
     <<"c", "u", "r", "r", "e", "n", "t">>,
     <<"T", "r", "e", "n", "d", "i", "n", "g">>,
     <<"D", "a", "i", "l", "y", " ">>,
     <<" ", "B", "o", "o", "s", "t">>,
     <<"T", "e", "c", "h", " ">>,
     <<"R", "a", "n", "d", "o", "m", " ", "F", "u", "n">>,
     <<"L", "e", "a", "r">>,
     <<"n">>,
     <<"n", "e", "w">>,
     <<"s", " ">>}

\* The names the contract gives as examples.
DailyMotivationBoost == <<"D", "a", "i", "l", "y", " ", "M", "o", "t", "i", "v", "a", "t", "i", "o", "n", " ", "B", "o", "o", "s", "t">>
TechTutorials == <<"T", "e", "c", "h", " ", "T", "u", "t", "o", "r", "i", "a", "l", "s">>
RandomFun == <<"R", "a", "n", "d", "o", "m", " ", "F", "u", "n">>

RECURSIVE Join(_)
\* The fragments of ws written one after the other.
Join(ws) == IF ws = <<>> THEN <<>> ELSE Head(ws) \o Join(Tail(ws))

\* The niche names styles are inferred for.
NicheNames ==
    {DailyMotivationBoost, TechTutorials, RandomFun}
        \cup UNION {{Join(ws) : ws \in [1..k -> NameFragments]} : k \in 0..MaxWords}

\* A style is inferred for a niche with some name and some other fields.
InitStyle ==
    /\ \E name \in NicheNames, k \in 1..2 :
          calc = [fn |-> "getStyleFromNiche", pc |-> "call",
                  niche |-> [id |-> k, name |-> name,
                             credentials |-> IF k = 1 THEN AllCredentials ELSE NoCredentials],
                  result |-> ""]
    /\ poll = PollIdle
    /\ niche = NoNiche
    /\ niches = <<>>
    /\ pc = "idle"
    /\ jobId = 0
    /\ videoId = 0
    /\ err = NoError
    /\ topics = 0
    /\ jobs = <<>>
    /\ statusLog = <<>>
    /\ videos = <<>>
    /\ videoLog = <<>>
    /\ topicLog = 0
    /\ uuidCount = 0
    /\ br = [p \in Platforms |-> idle]
    /\ started = {}
    /\ postCalled = {}
    /\ postOk = {}
    /\ threw = {}
    /\ outcome = "pending"
    /\ returned = 0
    /\ rejectedWith = NoError
    /\ trace = <<>>
    /\ retry = RetryIdle
    /\ sched = SchedIdle
    /\ col = ColIdle

\* What a call of a helper function leaves alone.
calcFrame == <<niche, niches, retry, sched, col, poll, pc, jobId, videoId, err, topics, storeVars,
               uuidCount, fanVars, threw, endVars, trace>>

\* style: this.getStyleFromNiche(niche)
InferStyle ==
    /\ calc.fn = "getStyleFromNiche"
    /\ calc.pc = "call"
    /\ calc' = [calc EXCEPT !.pc = "done", !.result = GetStyleFromNiche(calc.niche)]
    /\ UNCHANGED calcFrame

NextStyle ==
    \/ InferStyle

SpecStyle == InitStyle /\ [][NextStyle]_vars

\* The lower-cased name contains one of the words.
Matches(name, words) ==
    \E w \in words : Includes(ToLowerCase(name), w)

\* C27: the style inferred for a niche is fixed by its lower-cased name
\* alone, by the first test the name passes in the order educational,
\* motivational, news, and is entertainment when it passes none; the three
\* names of the contract get motivational, educational and entertainment.
C27_StylePriority ==
    (calc.fn = "getStyleFromNiche" /\ calc.pc = "done")
        => LET name == calc.niche.name
               educational == Matches(name, EducationalWords)
               motivational == Matches(name, MotivationalWords)
               news == Matches(name, NewsWords)
           IN /\ educational => calc.result = "educational"
              /\ (~educational /\ motivational) => calc.result = "motivational"
              /\ (~educational /\ ~motivational /\ news) => calc.result = "news"
              /\ (~educational /\ ~motivational /\ ~news) => calc.result = "entertainment"
              /\ name = DailyMotivationBoost => calc.result = "motivational"
              /\ name = TechTutorials => calc.result = "educational"
              /\ name = RandomFun => calc.result = "entertainment"

\* C27 witness: a name that passes the educational and the motivational
\* test was given the educational style.
C27_Witness ==
    /\ calc.fn = "getStyleFromNiche"
    /\ calc.pc = "done"
    /\ Matches(calc.niche.name, EducationalWords)
    /\ Matches(calc.niche.name, MotivationalWords)
    /\ calc.result = "educational"

(***************************************************************************)
(* calculateEngagementRate: arithmetic on JavaScript numbers                *)
(***************************************************************************)

\* The largest count of views, likes, comments or shares tried.
MaxCount == 3

\* A JavaScript number is a binary64 value: 53 significant bits.
Precision == 53

\* Numbers: zero, NaN, Infinity, or a positive finite value whose
\* significand m is a tuple of Precision bits, most significant first (a 1),
\* and whose most significant bit weighs 2^e.
Zero == [kind |-> "zero"]
NaN == [kind |-> "NaN"]
Infinity == [kind |-> "Infinity"]

RECURSIVE BitsOf(_)
\* The binary digits of a natural number, most significant first.
BitsOf(n) == IF n = 0 THEN <<>> ELSE BitsOf(n \div 2) \o <<n % 2>>

\* The first bits of a tuple, and its last bit.
Front(bits) == SubSeq(bits, 1, Len(bits) - 1)
Last(bits) == bits[Len(bits)]

\* One added to a binary numeral: the last 0 becomes 1 and the 1s after it
\* become 0; a numeral of 1s only grows by one digit.
Increment(bits) ==
    LET zeros == {i \in DOMAIN bits : bits[i] = 0}
    IN IF zeros = {} THEN <<1>> \o [i \in DOMAIN bits |-> 0]
       ELSE LET z == CHOOSE i \in zeros : \A j \in zeros : j <= i
            IN [i \in DOMAIN bits |-> IF i < z THEN bits[i] ELSE IF i = z THEN 1 ELSE 0]

\* Round to nearest, ties to even: bits is a numeral of more than Precision
\* bits starting with 1 whose first bit weighs 2^e; sticky tells that
\* non-zero digits follow it.
RoundToNearestEven(bits, sticky, e) ==
    LET keep == SubSeq(bits, 1, Precision)
        guard == bits[Precision + 1]
        rest == sticky \/ \E i \in (Precision + 2)..Len(bits) : bits[i] = 1
        up == guard = 1 /\ (rest \/ Last(keep) = 1)
        m == IF up THEN Increment(keep) ELSE keep
    IN IF Len(m) > Precision
       THEN [kind |-> "finite", m |-> SubSeq(m, 1, Precision), e |-> e + 1]
       ELSE [kind |-> "finite", m |-> m, e |-> e]

\* A positive integer below 2^Precision as a number (exact).
FromInt(n) ==
    LET bits == BitsOf(n)
    IN [kind |-> "finite",
        m |-> bits \o [i \in 1..(Precision - Len(bits)) |-> 0],
        e |-> Len(bits) - 1]

RECURSIVE Normalise(_, _, _)
\* a / b written as (a' / b') * 2^e with b' <= a' < 2 b'.
Normalise(a, b, e) ==
    IF a >= 2 * b THEN Normalise(a, 2 * b, e + 1)
    ELSE IF a < b THEN Normalise(2 * a, b, e - 1)
    ELSE [a |-> a, b |-> b, e |-> e]

RECURSIVE Pow2Mod(_, _)
\* 2^k modulo b.
Pow2Mod(k, b) ==
    IF k = 0 THEN 1 % b
    ELSE LET h == Pow2Mod(k \div 2, b)
         IN (h * h * (IF k % 2 = 1 THEN 2 ELSE 1)) % b

\* What is left of r after k binary digits of r / b, for r < b.
DivRem(r, b, k) == (r * Pow2Mod(k, b)) % b

\* The first k binary digits of r / b after the point, for r < b: long
\* division, each digit from the remainder before it.
DivBits(r, b, k) ==
    [i \in 1..k |-> (2 * DivRem(r, b, i - 1)) \div b]

\* a / b on numbers, for natural a and b.
Quotient(a, b) ==
    IF b = 0 THEN (IF a = 0 THEN NaN ELSE Infinity)
    ELSE IF a = 0 THEN Zero
    ELSE LET n == Normalise(a, b, 0)
         IN RoundToNearestEven(<<1>> \o DivBits(n.a - n.b, n.b, Precision),
                               DivRem(n.a - n.b, n.b, Precision) # 0, n.e)

\* The digits multiplied in one step of a multiplication.
ChunkBits == 4

RECURSIVE ValueOf(_)
\* The natural number a short binary numeral denotes.
ValueOf(bits) == IF bits = <<>> THEN 0 ELSE 2 * ValueOf(Front(bits)) + Last(bits)

\* The last w binary digits of a natural number.
LowBits(n, w) == [i \in 1..w |-> (n \div 2^(w - i)) % 2]

RECURSIVE MulCarry(_, _, _)
\* A binary numeral times a small natural number, plus a carry: schoolbook
\* multiplication from the right, ChunkBits digits at a time.
MulCarry(bits, c, carry) ==
    IF bits = <<>> THEN BitsOf(carry)
    ELSE LET w == IF Len(bits) < ChunkBits THEN Len(bits) ELSE ChunkBits
             v == ValueOf(SubSeq(bits, Len(bits) - w + 1, Len(bits))) * c + carry
         IN MulCarry(SubSeq(bits, 1, Len(bits) - w), c, v \div 2^w) \o LowBits(v, w)

\* x * c on numbers, for a positive integer c.
Times(x, c) ==
    IF x.kind # "finite" THEN x
    ELSE LET product == MulCarry(x.m, c, 0)
         IN RoundToNearestEven(product \o <<0>>, FALSE,
                               x.e + Len(product) - Precision)

\* Fault seeded into the function: the `if (views === 0) return 0` line is
\* missing.
CalculateEngagementRateUnguarded(views, likes, comments, shares) ==
    LET totalEngagements == likes + comments + shares
    IN Times(Quotient(totalEngagements, views), 100)

\* calculateEngagementRate(views, likes, comments, shares)
CalculateEngagementRate(views, likes, comments, shares) ==
    IF views = 0 THEN Zero
    ELSE LET totalEngagements == likes + comments + shares
         IN Times(Quotient(totalEngagements, views), 100)

\* The arguments the contract gives as an example.
ExampleCounts == [views |-> 100, likes |-> 10, comments |-> 5, shares |-> 5]

\* The rate is computed for some counts.
InitRate ==
    /\ \E args \in [views : 0..MaxCount, likes : 0..MaxCount,
                    comments : 0..MaxCount, shares : 0..MaxCount]
                       \cup {ExampleCounts} :
          calc = [fn |-> "calculateEngagementRate", pc |-> "call",
                  args |-> args, result |-> Zero]
    /\ poll = PollIdle
    /\ niche = NoNiche
    /\ niches = <<>>
    /\ pc = "idle"
    /\ jobId = 0
    /\ videoId = 0
    /\ err = NoError
    /\ topics = 0
    /\ jobs = <<>>
    /\ statusLog = <<>>
    /\ videos = <<>>
    /\ videoLog = <<>>
    /\ topicLog = 0
    /\ uuidCount = 0
    /\ br = [p \in Platforms |-> idle]
    /\ started = {}
    /\ postCalled = {}
    /\ postOk = {}
    /\ threw = {}
    /\ outcome = "pending"
    /\ returned = 0
    /\ rejectedWith = NoError
    /\ trace = <<>>
    /\ retry = RetryIdle
    /\ sched = SchedIdle
    /\ col = ColIdle

\* engagementRate: calculateEngagementRate(stats.views, stats.likes, ...)
ComputeRate ==
    /\ calc.fn = "calculateEngagementRate"
    /\ calc.pc = "call"
    /\ calc' = [calc EXCEPT !.pc = "done",
                            !.result = CalculateEngagementRate(calc.args.views, calc.args.likes,
                                                               calc.args.comments, calc.args.shares)]
    /\ UNCHANGED calcFrame

NextRate ==
    \/ ComputeRate

SpecRate == InitRate /\ [][NextRate]_vars

\* C28: for natural views, likes, comments and shares the rate is the number
\* 0 when views = 0 and the number (likes + comments + shares) / views * 100
\* otherwise, the division and the multiplication being those of JavaScript
\* numbers; for 100 views, 10 likes, 5 comments and 5 shares it is 20.
C28_EngagementRate ==
    (calc.fn = "calculateEngagementRate" /\ calc.pc = "done")
        => LET a == calc.args
           IN /\ a.views = 0 => calc.result = Zero
              /\ a.views > 0
                    => calc.result = Times(Quotient(a.likes + a.comments + a.shares, a.views), 100)
              /\ calc.result \notin {NaN, Infinity}
              /\ a = ExampleCounts => calc.result = FromInt(20)

\* C28 witness: the rate of the example has been computed and is 20.
C28_Witness ==
    /\ calc.fn = "calculateEngagementRate"
    /\ calc.pc = "done"
    /\ calc.args = ExampleCounts
    /\ calc.result = FromInt(20)

(***************************************************************************)
(* Job and video status at the end of a run                                 *)
(***************************************************************************)

\* The run has finished: it returned or threw.
RunFinished == pc = "done" /\ outcome \in {"returned", "rejected"}

\* C29: whenever a run ends with its job in failed status, no platform post
\* operation was attempted during that run.  (Violated: a status update
\* that throws after the fan-out fails the job.)
C29_FailedJobNeverPosted ==
    (RunFinished /\ jobId # 0 /\ jobs[jobId].status = "failed")
        => postCalled = {}

\* C30: when a run has finished, its job's stored status is completed if
\* and only if its video record exists with top-level status posted,
\* whichever record-store operation failed during the run.  (Violated: the
\* video update throws and the write of failed throws too.)
C30_CompletedIffPosted ==
    (RunFinished /\ jobId # 0)
        => (jobs[jobId].status = "completed"
              <=> (videoId \in DOMAIN videos /\ videos[videoId].status = "posted"))

(***************************************************************************)
(* InstagramPosterService.postReel (services/instagram-poster.ts)           *)
(*                                                                          *)
(* calc.calls lists the calls postReel has made, in order; the waiting      *)
(* step is the polling loop of waitForMediaProcessing, kept in poll.        *)
(***************************************************************************)

\* postReel is called.
InitReel ==
    /\ calc = [fn |-> "postReel", pc |-> "createMediaContainer", calls |-> <<>>,
               outcome |-> "pending", error |-> NoError]
    /\ poll = PollIdle
    /\ niche = NoNiche
    /\ niches = <<>>
    /\ pc = "idle"
    /\ jobId = 0
    /\ videoId = 0
    /\ err = NoError
    /\ topics = 0
    /\ jobs = <<>>
    /\ statusLog = <<>>
    /\ videos = <<>>
    /\ videoLog = <<>>
    /\ topicLog = 0
    /\ uuidCount = 0
    /\ br = [p \in Platforms |-> idle]
    /\ started = {}
    /\ postCalled = {}
    /\ postOk = {}
    /\ threw = {}
    /\ outcome = "pending"
    /\ returned = 0
    /\ rejectedWith = NoError
    /\ trace = <<>>
    /\ retry = RetryIdle
    /\ sched = SchedIdle
    /\ col = ColIdle

\* What a step of postReel outside the polling loop leaves alone.
reelFrame == <<niche, niches, retry, sched, col, pc, jobId, videoId, err, topics, storeVars,
               uuidCount, fanVars, threw, endVars, trace>>

\* postReel throws (its catch block logs and rethrows).
ReelReject(c, message) ==
    [c EXCEPT !.pc = "done", !.outcome = "rejected", !.error = message]

\* containerId = await this.createMediaContainer(...); then
\* waitForMediaProcessing is called and runs to its first sleep.
ReelCreateContainer ==
    /\ calc.fn = "postReel"
    /\ calc.pc = "createMediaContainer"
    /\ \/ /\ calc' = ReelReject([calc EXCEPT !.calls = Append(@, "createMediaContainer")],
                               "createMediaContainer")
          /\ UNCHANGED poll
       \/ /\ calc' = [calc EXCEPT !.pc = "waitForMediaProcessing",
                         !.calls = @ \o <<"createMediaContainer", "waitForMediaProcessing">>]
          /\ poll' = [PollIdle EXCEPT !.kind = "instagram",
                         !.pc = IF PollAgain(0, MaxAttempts("instagram")) THEN "sleep" ELSE "done",
                         !.outcome = IF PollAgain(0, MaxAttempts("instagram"))
                                     THEN "pending" ELSE "rejected",
                         !.error = IF PollAgain(0, MaxAttempts("instagram"))
                                   THEN NoError ELSE "Media processing timed out"]
    /\ UNCHANGED reelFrame

\* Fault seeded into postReel: the outcome of the wait is not looked at,
\* the container is published when the wait has ended.
ReelAfterWaitPublishingAnyway ==
    /\ calc.fn = "postReel"
    /\ calc.pc = "waitForMediaProcessing"
    /\ poll.pc = "done"
    /\ calc' = [calc EXCEPT !.pc = "publishMediaContainer"]
    /\ UNCHANGED <<poll, reelFrame>>

\* await this.waitForMediaProcessing(containerId) settles.
ReelAfterWait ==
    /\ calc.fn = "postReel"
    /\ calc.pc = "waitForMediaProcessing"
    /\ poll.pc = "done"
    /\ calc' = IF poll.outcome = "returned"
               THEN [calc EXCEPT !.pc = "publishMediaContainer"]
               ELSE ReelReject(calc, poll.error)
    /\ UNCHANGED <<poll, reelFrame>>

\* mediaId = await this.publishMediaContainer(accountId, containerId)
ReelPublish ==
    /\ calc.fn = "postReel"
    /\ calc.pc = "publishMediaContainer"
    /\ \/ calc' = ReelReject([calc EXCEPT !.calls = Append(@, "publishMediaContainer")],
                            "publishMediaContainer")
       \/ calc' = [calc EXCEPT !.pc = "getMediaPermalink",
                      !.calls = Append(@, "publishMediaContainer")]
    /\ UNCHANGED <<poll, reelFrame>>

\* permalink = await this.getMediaPermalink(mediaId); return {mediaId, permalink}
ReelPermalink ==
    /\ calc.fn = "postReel"
    /\ calc.pc = "getMediaPermalink"
    /\ \/ calc' = ReelReject([calc EXCEPT !.calls = Append(@, "getMediaPermalink")],
                            "getMediaPermalink")
       \/ calc' = [calc EXCEPT !.pc = "done", !.outcome = "returned",
                      !.calls = Append(@, "getMediaPermalink")]
    /\ UNCHANGED <<poll, reelFrame>>

NextReel ==
    \/ ReelCreateContainer
    \/ PollSleep
    \/ InstagramQuery
    \/ ReelAfterWait
    \/ ReelPublish
    \/ ReelPermalink

SpecReel == InitReel /\ [][NextReel]_vars

\* The calls of postReel in the order of its body.
ReelOrder ==
    <<"createMediaContainer", "waitForMediaProcessing", "publishMediaContainer",
      "getMediaPermalink">>

\* The calls postReel has made so far.
ReelCalls == {calc.calls[i] : i \in DOMAIN calc.calls}

\* C34: postReel makes its calls in the order create container, wait for
\* processing, publish, fetch permalink; the container is published only
\* after a status query returned FINISHED; when processing reports ERROR or
\* the attempt ceiling is exhausted the publish call is never made and
\* postReel throws; a postReel that returns has made all four calls.
C34_PublishOnlyAfterFinished ==
    /\ IsPrefix(calc.calls, ReelOrder)
    /\ (calc.pc \in {"publishMediaContainer", "getMediaPermalink"}
            \/ "publishMediaContainer" \in ReelCalls)
          => /\ poll.pc = "done"
             /\ poll.outcome = "returned"
             /\ poll.last = "FINISHED"
             /\ poll.queries >= 1
    /\ (poll.pc = "done" /\ poll.last # "FINISHED")
          => /\ "publishMediaContainer" \notin ReelCalls
             /\ calc.pc \in {"waitForMediaProcessing", "done"}
             /\ calc.pc = "done" => (calc.outcome = "rejected" /\ calc.error = poll.error)
    /\ (poll.pc = "done" /\ poll.last = "ERROR") => poll.error = "Media processing failed"
    /\ (poll.pc = "done" /\ poll.error = "Media processing timed out")
          => (poll.queries = InstagramMaxAttempts /\ poll.last = "IN_PROGRESS")
    /\ (calc.pc = "done" /\ calc.outcome = "returned") => calc.calls = ReelOrder

\* C34 witness: the ceiling of status queries was exhausted and postReel
\* threw the timed-out error without publishing.
C34_Witness ==
    /\ calc.fn = "postReel"
    /\ calc.pc = "done"
    /\ calc.outcome = "rejected"
    /\ calc.error = "Media processing timed out"
    /\ poll.queries = InstagramMaxAttempts
    /\ calc.calls = <<"createMediaContainer", "waitForMediaProcessing">>

(***************************************************************************)
(* Results of generateWithFal and generateWithReplicate                     *)
(***************************************************************************)

\* The statuses that report completion, and those that report failure.
CompletionStatuses == {"COMPLETED", "succeeded"}
FailureStatuses == {"FAILED", "failed", "canceled"}

\* C35: generateWithFal and generateWithReplicate return a result if and
\* only if some status response reported completion, and then return that
\* response's video URL; a failure status makes the call throw at once with
\* no further status query; the timed-out error is raised only when the
\* ceiling of 60 status queries was exhausted without a completion status.
\* (Violated: a completion response that carries no video URL makes the
\* call throw the timed-out error.)
C35_ResultIffCompletion ==
    poll.kind \in {"fal", "replicate"}
        => /\ poll.last \in FailureStatuses
                 => /\ poll.pc = "done"
                    /\ poll.outcome = "rejected"
                    /\ poll.error \in {"Video generation failed", "Video generation canceled"}
           /\ poll.pc = "done"
                 => /\ poll.outcome = "returned" <=> poll.last \in CompletionStatuses
                    /\ poll.outcome = "returned"
                          => (poll.result = poll.videoUrl /\ poll.result # "")
                    /\ poll.error = "Video generation timed out"
                          => /\ poll.queries = MaxAttempts(poll.kind)
                             /\ poll.last \notin CompletionStatuses

(***************************************************************************)
(* YouTubePosterService.uploadShortFromBuffer (services/youtube-poster.ts)  *)
(*                                                                          *)
(* calc.files is the set of files under /tmp, each named by the value of    *)
(* Date.now() it was created with; calc.now is the clock, calc.tmpPath the  *)
(* file of the current call, calc.calls the number of calls made.           *)
(***************************************************************************)

\* The most calls of uploadShortFromBuffer, and the last clock value.
MaxUploads == 3
MaxClock == 4

\* No upload has been asked for; /tmp holds no video file.
InitUpload ==
    /\ calc = [fn |-> "uploadShortFromBuffer", pc |-> "idle", now |-> 0, tmpPath |-> 0,
               files |-> {}, calls |-> 0, outcome |-> "pending", error |-> NoError]
    /\ poll = PollIdle
    /\ niche = NoNiche
    /\ niches = <<>>
    /\ pc = "idle"
    /\ jobId = 0
    /\ videoId = 0
    /\ err = NoError
    /\ topics = 0
    /\ jobs = <<>>
    /\ statusLog = <<>>
    /\ videos = <<>>
    /\ videoLog = <<>>
    /\ topicLog = 0
    /\ uuidCount = 0
    /\ br = [p \in Platforms |-> idle]
    /\ started = {}
    /\ postCalled = {}
    /\ postOk = {}
    /\ threw = {}
    /\ outcome = "pending"
    /\ returned = 0
    /\ rejectedWith = NoError
    /\ trace = <<>>
    /\ retry = RetryIdle
    /\ sched = SchedIdle
    /\ col = ColIdle

\* uploadShortFromBuffer throws (its catch block logs and rethrows).
UploadReject(c, message) ==
    [c EXCEPT !.pc = "done", !.outcome = "rejected", !.error = message]

\* uploadShortFromBuffer is called: tmpPath = `/tmp/video_${Date.now()}.mp4`;
\* fs.writeFileSync(tmpPath, videoBuffer); then uploadShort is awaited.
UploadWriteTemp ==
    /\ calc.fn = "uploadShortFromBuffer"
    /\ calc.pc \in {"idle", "done"}
    /\ calc.calls < MaxUploads
    /\ \E t \in 1..MaxClock :
          /\ t >= calc.now
          /\ LET c == [calc EXCEPT !.now = t, !.tmpPath = t, !.calls = @ + 1,
                                   !.outcome = "pending", !.error = NoError]
             IN \/ calc' = UploadReject(c, "writeFileSync")
                \/ calc' = [c EXCEPT !.pc = "uploadShort", !.files = @ \cup {t}]
    /\ UNCHANGED <<poll, reelFrame>>

\* result = await this.uploadShort(tmpPath, ...); fs.unlinkSync(tmpPath);
\* return result
UploadShortSettles ==
    /\ calc.fn = "uploadShortFromBuffer"
    /\ calc.pc = "uploadShort"
    /\ \/ calc' = UploadReject(calc, "uploadShort")
       \/ calc' = UploadReject(calc, "unlinkSync")
       \/ calc' = [calc EXCEPT !.pc = "done", !.outcome = "returned",
                      !.files = @ \ {calc.tmpPath}]
    /\ UNCHANGED <<poll, reelFrame>>

NextUpload ==
    \/ UploadWriteTemp
    \/ UploadShortSettles

SpecUpload == InitUpload /\ [][NextUpload]_vars

\* C36: uploadShortFromBuffer leaves no temporary file behind: when a call
\* has returned, and also when its upload threw, the file it wrote under
\* /tmp has been removed.  (Violated: the file is removed only after a
\* successful upload.)
C36_NoTemporaryFileLeft ==
    (calc.fn = "uploadShortFromBuffer" /\ calc.pc = "done"
        /\ (calc.outcome = "returned" \/ calc.error = "uploadShort"))
        => calc.tmpPath \notin calc.files
====
